---- MODULE Spec2Model ----
(***************************************************************************)
(* Brisk: the game session engine (GameManager) and the socket handlers    *)
(* that drive it, for one lobby code.                                       *)
(*                                                                         *)
(* A display name is a sequence of tokens; the token "bot" is the AI       *)
(* marker the code appends and strips.  A card is a record                  *)
(* [number, suit].  Player ids (uuid v4 in the code) are naturals; a new   *)
(* id is one that nothing in the engine refers to any more.  Array indices *)
(* keep the code's 0-based values (currentPlayerIndex), sequences are      *)
(* 1-based, so players[currentPlayerIndex] is players[currentPlayerIndex   *)
(* + 1] here.  The deck is drawn from its tail (Array.pop).                *)
(***************************************************************************)
EXTENDS Integers, Sequences, FiniteSets, TLC

VARIABLES
    live,               \* games.has(lobbyCode)
    players,            \* gameState.players
    currentPlayerIndex, \* gameState.currentPlayerIndex
    gamePhase,          \* gameState.gamePhase
    maxPlayers,         \* gameState.maxPlayers
    currentRound,       \* gameState.currentRound
    deck,               \* gameState.deck
    lastCard,           \* gameState.lastCard (the trump indicator)
    playedCards,        \* gameState.playedCards
    lastRoundWinner,    \* gameState.lastRoundWinner
    winner,             \* gameState.winner (the id of the player object)
    turnTimeouts,       \* turnTimeouts.get(lobbyCode): a timer handle
    pendingTimers,      \* handles of turn timers the event loop still holds
    staleTimers,        \* pending handles armed before the latest card play
    armedFor,           \* pending handle -> the player due when it was armed
    fireAt,             \* pending handle -> the time its setTimeout delay ends
    speed,              \* gameState.speed
    turnStartTimestamp, \* gameState.turnStartTimestamp
    turnEndTimestamp,   \* gameState.turnEndTimestamp
    returnTimers,       \* pending 5 s returnToLobby timers of the transport
    kickedPlayers,      \* kickedPlayers.get(lobbyCode): name -> expiry
    inRoom,             \* ids of the players whose socket is in the room
    now,                \* Date.now()
    kickedAt,           \* name -> time of the latest kick of a Human of it
    otherGames,         \* games.get(code) with its timers, for the other codes
    chat,               \* gameState.chat (followed by the chat steps only)
    sent,               \* every chat message sent to the session, in order
    opsUsed,            \* steps taken that are counted against MaxOps
    lastOp              \* the latest intent or timer, with its outcome

vars == <<live, players, currentPlayerIndex, gamePhase, maxPlayers,
          currentRound, deck, lastCard, playedCards, lastRoundWinner, winner,
          turnTimeouts, pendingTimers, staleTimers, armedFor, fireAt, speed,
          turnStartTimestamp, turnEndTimestamp, returnTimers,
          kickedPlayers, inRoom, now, kickedAt, otherGames, chat, sent,
          opsUsed, lastOp>>

----------------------------------------------------------------------------
(* Bounds of the exploration *)

\* card plays by intent or by timer are explored while currentRound is at
\* most MaxRounds
MaxRounds == 1
\* Date.now() advances in steps of TickMs up to MaxNow
MaxNow == 40000
\* pending returnToLobby timers the transport may hold at once
MaxReturnTimers == 1
\* steps explored besides those that set a match up or carry it on
MaxOps == 2
\* tricks given to the trick resolver alone hold up to MaxTrick cards
MaxTrick == 3
\* sessions given to endGame alone have up to MaxEndPlayers players
MaxEndPlayers == 3
\* chat messages sent to a session, and how many of them by the system
MaxMessages == 102
MaxSystemMessages == 1
\* steps taken on the store of two lobby codes
MaxStoreOps == 5
\* the turn windows are followed while currentRound is at most MaxTurnRounds
MaxTurnRounds == 1
\* the AI strategy alone follows tricks of up to MaxAITrick cards with
\* hands of up to MaxAIHand cards
MaxAITrick == 2
MaxAIHand == 2

----------------------------------------------------------------------------
(* Program constants *)

KICK_TIMEOUT_MS == 30000
ROUND_RESOLUTION_BUFFER_MS == 3000
CARDS_PER_HAND == 3
MAX_CHAT_MESSAGES == 100
DefaultMaxPlayers == 5
MinPlayers == 2
MaxStartPlayers == 5
MaxNumber == 10

Suits == <<"a", "b", "c", "d">>

\* the step of the clock: a third of the kick cooldown
TickMs == KICK_TIMEOUT_MS \div 3

NoId == 0
NoTimer == 0
\* a timestamp that is undefined
NoTime == 0

speedMap ==
    [slower |-> 60000, slow |-> 40000, normal |-> 30000, fast |-> 15000,
     extreme |-> 5000]

speedOptions == DOMAIN speedMap
NoCard == [number |-> 0, suit |-> "none"]

----------------------------------------------------------------------------
(* Sequence helpers *)

RemoveAt(seq, i) == SubSeq(seq, 1, i - 1) \o SubSeq(seq, i + 1, Len(seq))

Last(seq) == seq[Len(seq)]

Front(seq) == SubSeq(seq, 1, Len(seq) - 1)

\* Array.findIndex, 1-based; 0 when no element satisfies Test
FindIndex(seq, Test(_)) ==
    IF \E i \in 1..Len(seq) : Test(seq[i])
    THEN CHOOSE i \in 1..Len(seq) :
            Test(seq[i]) /\ \A j \in 1..(i - 1) : ~Test(seq[j])
    ELSE 0

Min(x, y) == IF x < y THEN x ELSE y

Max(x, y) == IF x > y THEN x ELSE y

RECURSIVE SumSeq(_)
SumSeq(seq) == IF seq = <<>> THEN 0 ELSE seq[1] + SumSeq(Tail(seq))

----------------------------------------------------------------------------
(* Names *)

IsSpace(tok) == tok = " "

\* /bot$/i and toLowerCase().endsWith('bot')
IsBotToken(tok) == tok \in {"bot", "BOT", "Bot"}

RECURSIVE TrimLeft(_)
TrimLeft(name) ==
    IF name # <<>> /\ IsSpace(name[1]) THEN TrimLeft(Tail(name)) ELSE name

RECURSIVE TrimRight(_)
TrimRight(name) ==
    IF name # <<>> /\ IsSpace(Last(name)) THEN TrimRight(Front(name)) ELSE name

Trim(name) == TrimLeft(TrimRight(name))

cleanPlayerName(playerName) ==
    IF Trim(playerName) # <<>> /\ IsBotToken(Last(Trim(playerName)))
    THEN Trim(IF playerName # <<>> /\ IsBotToken(Last(playerName))
              THEN Front(playerName)
              ELSE playerName)
    ELSE playerName

\* String.endsWith('bot'), case sensitive
EndsWithBot(name) == name # <<>> /\ Last(name) = "bot"

----------------------------------------------------------------------------
(* Cards *)

\* a getCardValue that counts the ace as ten points
getCardValueAceTen(card) ==
    CASE card.number = 1 -> 10
      [] card.number = 3 -> 10
      [] card.number = 8 -> 2
      [] card.number = 9 -> 3
      [] card.number = 10 -> 4
      [] OTHER -> 0

getCardValue(card) ==
    CASE card.number = 1 -> 11
      [] card.number = 3 -> 10
      [] card.number = 8 -> 2
      [] card.number = 9 -> 3
      [] card.number = 10 -> 4
      [] OTHER -> 0

\* the deck before shuffling: suit by suit, numbers ascending
OrderedDeck ==
    [i \in 1..(Len(Suits) * MaxNumber) |->
        [number |-> ((i - 1) % MaxNumber) + 1,
         suit |-> Suits[((i - 1) \div MaxNumber) + 1]]]

\* a handleSpecialDeckCases that removes no card
keepWholeDeck(d, numPlayers) == d

handleSpecialDeckCases(d, numPlayers) ==
    IF numPlayers = 3
    THEN LET idx == FindIndex(d, LAMBDA c : c.number = 2)
         IN IF idx # 0 THEN RemoveAt(d, idx) ELSE d
    ELSE d

\* The outcomes of the Fisher-Yates shuffle that are explored: the
\* permutations i -> k*i + off (mod n), k coprime to 40 and to 39.
ShuffleKeys == {<<7, 3>>}

Permute(d, key) ==
    [i \in 1..Len(d) |-> d[(((i - 1) * key[1] + key[2]) % Len(d)) + 1]]

createAndShuffleDeck(numPlayers, key) ==
    Permute(handleSpecialDeckCases(OrderedDeck, numPlayers), key)

----------------------------------------------------------------------------
(* The session as one value, for the operations that call each other *)

\* the lobby code of the session held in the variables
LobbyCode == "L1"

\* lobby codes intents are addressed to: this session's and another one
LobbyCodes == {LobbyCode, "L2"}

OtherCodes == LobbyCodes \ {LobbyCode}

GameState ==
    [lobbyCode |-> LobbyCode, live |-> live, players |-> players,
     currentPlayerIndex |-> currentPlayerIndex, gamePhase |-> gamePhase,
     maxPlayers |-> maxPlayers, currentRound |-> currentRound,
     deck |-> deck, lastCard |-> lastCard, playedCards |-> playedCards,
     lastRoundWinner |-> lastRoundWinner, winner |-> winner,
     turnTimeouts |-> turnTimeouts, pendingTimers |-> pendingTimers,
     staleTimers |-> staleTimers, armedFor |-> armedFor, fireAt |-> fireAt,
     speed |-> speed, turnStartTimestamp |-> turnStartTimestamp,
     turnEndTimestamp |-> turnEndTimestamp,
     kickedPlayers |-> kickedPlayers, now |-> now,
     err |-> "", remainingMs |-> 0, trace |-> <<>>, arm |-> FALSE]

\* what the manager holds for a lobby code with no session and no timer
NoSession ==
    [live |-> FALSE, players |-> <<>>, currentPlayerIndex |-> 0,
     gamePhase |-> "lobby", maxPlayers |-> DefaultMaxPlayers,
     currentRound |-> 1, deck |-> <<>>, lastCard |-> NoCard,
     playedCards |-> <<>>, lastRoundWinner |-> NoId, winner |-> NoId,
     turnTimeouts |-> NoTimer, pendingTimers |-> {}, staleTimers |-> {},
     armedFor |-> <<>>, fireAt |-> <<>>, speed |-> "normal", turnStartTimestamp |-> NoTime,
     turnEndTimestamp |-> NoTime, returnTimers |-> 0]

\* gameState.players[gameState.currentPlayerIndex] is defined
HasCurrentPlayer(s) ==
    s.currentPlayerIndex >= 0 /\ s.currentPlayerIndex < Len(s.players)

CurrentPlayer(s) == s.players[s.currentPlayerIndex + 1]

PlayerIndexOf(s, playerId) == FindIndex(s.players, LAMBDA p : p.id = playerId)

\* an error thrown by an operation: nothing was changed before the throw
Throw(s, message) == [s EXCEPT !.err = message]

----------------------------------------------------------------------------
(* Turn scheduler *)

FreshTimer(s) ==
    CHOOSE t \in 1..(Cardinality(s.pendingTimers) + 2) :
        /\ t \notin s.pendingTimers
        /\ t # s.turnTimeouts
        /\ \A u \in 1..(t - 1) : u \in s.pendingTimers \/ u = s.turnTimeouts

getTurnTimeoutMS(s) ==
    IF s.speed \in DOMAIN speedMap THEN speedMap[s.speed] ELSE speedMap.normal

setNextTurn(s, timeoutMS, offsetMS) ==
    [s EXCEPT !.turnStartTimestamp = s.now,
              !.turnEndTimestamp = s.now + timeoutMS + offsetMS]

clearTurnTimeout(s) ==
    IF s.turnTimeouts # NoTimer
    THEN [s EXCEPT !.pendingTimers = @ \ {s.turnTimeouts},
                   !.staleTimers = @ \ {s.turnTimeouts},
                   !.turnTimeouts = NoTimer]
    ELSE s

\* setTimeout(handleTurnTimeout, getTurnTimeoutMS) and turnTimeouts.set
ArmTimer(s) ==
    LET t == FreshTimer(s)
    IN [s EXCEPT !.pendingTimers = @ \cup {t}, !.turnTimeouts = t,
                 !.armedFor = [u \in DOMAIN @ \cup {t} |->
                                  IF u = t THEN CurrentPlayer(s).id ELSE @[u]],
                 !.fireAt = [u \in DOMAIN @ \cup {t} |->
                                IF u = t THEN s.now + getTurnTimeoutMS(s)
                                ELSE @[u]]]

----------------------------------------------------------------------------
(* AI strategy *)

RECURSIVE LowestFrom(_, _)
\* Array.reduce((min, c) => value(c) < value(min) ? c : min) from min
LowestFrom(min, rest) ==
    IF rest = <<>> THEN min
    ELSE LowestFrom(IF getCardValue(rest[1]) < getCardValue(min)
                    THEN rest[1] ELSE min, Tail(rest))

\* a getLowestCardInHand that returns the first card of the hand
getFirstCardInHand(hand) == hand[1]

getLowestCardInHand(hand) == LowestFrom(hand[1], Tail(hand))

RECURSIVE HighestFrom(_, _, _)
\* the reduce that finds the best card of the trick so far
HighestFrom(highest, rest, winningSuit) ==
    IF rest = <<>> THEN highest
    ELSE LET pc == rest[1]
             next ==
                IF pc.card.suit = winningSuit
                      /\ highest.card.suit # winningSuit
                THEN pc
                ELSE IF pc.card.suit = winningSuit
                          /\ highest.card.suit = winningSuit
                     THEN IF getCardValue(pc.card) > getCardValue(highest.card)
                          THEN pc ELSE highest
                     ELSE highest
         IN HighestFrom(next, Tail(rest), winningSuit)

WINNING_THRESHOLD == 10

computeChosenCard(s, currentPlayer) ==
    LET briscolaSuit == s.lastCard.suit
        trick == s.playedCards
        currentHand == currentPlayer.hand
    IN IF trick = <<>>
       THEN LET nonBriscolaCards ==
                    SelectSeq(currentHand, LAMBDA c : c.suit # briscolaSuit)
            IN IF nonBriscolaCards # <<>>
               THEN getLowestCardInHand(nonBriscolaCards)
               ELSE getLowestCardInHand(currentHand)
       ELSE
       LET dominantSuitInTrick == trick[1].card.suit
           isBriscolaPlayedInTrick ==
               \E i \in 1..Len(trick) : trick[i].card.suit = briscolaSuit
           winningSuit == IF isBriscolaPlayedInTrick
                          THEN briscolaSuit ELSE dominantSuitInTrick
           highestCardInTrick == HighestFrom(trick[1], trick, winningSuit)
           best == getCardValue(highestCardInTrick.card)
           currentTrickValue ==
               SumSeq([i \in 1..Len(trick) |-> getCardValue(trick[i].card)])
           playableSameSuitCards ==
               SelectSeq(currentHand, LAMBDA c : c.suit = dominantSuitInTrick)
           cardsToBeatHighest ==
               SelectSeq(currentHand, LAMBDA c :
                   IF isBriscolaPlayedInTrick
                   THEN c.suit = briscolaSuit /\ getCardValue(c) > best
                   ELSE \/ c.suit = dominantSuitInTrick /\ getCardValue(c) > best
                        \/ c.suit = briscolaSuit)
           potentialSameSuitWinners ==
               SelectSeq(playableSameSuitCards,
                         LAMBDA c : getCardValue(c) > best)
           briscolaCardsInHand ==
               SelectSeq(currentHand, LAMBDA c : c.suit = briscolaSuit)
           potentialBriscolaWinners ==
               SelectSeq(briscolaCardsInHand, LAMBDA c :
                   IF isBriscolaPlayedInTrick
                   THEN getCardValue(c) > best ELSE TRUE)
           loseCheaply ==
               IF playableSameSuitCards # <<>>
               THEN getLowestCardInHand(playableSameSuitCards)
               ELSE getLowestCardInHand(currentHand)
       IN IF currentTrickValue >= WINNING_THRESHOLD
               \/ cardsToBeatHighest # <<>>
          THEN IF potentialSameSuitWinners # <<>>
               THEN getLowestCardInHand(potentialSameSuitWinners)
               ELSE IF potentialBriscolaWinners # <<>>
                    THEN getLowestCardInHand(potentialBriscolaWinners)
                    ELSE loseCheaply
          ELSE loseCheaply

\* the card computeChosenCard returns from within its attempt to win a
\* trick it follows, NoCard when it returns no card from there
attemptToWin(s, currentPlayer) ==
    LET briscolaSuit == s.lastCard.suit
        trick == s.playedCards
        currentHand == currentPlayer.hand
    IN IF trick = <<>> THEN NoCard
       ELSE
       LET dominantSuitInTrick == trick[1].card.suit
           isBriscolaPlayedInTrick ==
               \E i \in 1..Len(trick) : trick[i].card.suit = briscolaSuit
           winningSuit == IF isBriscolaPlayedInTrick
                          THEN briscolaSuit ELSE dominantSuitInTrick
           best == getCardValue(HighestFrom(trick[1], trick, winningSuit).card)
           currentTrickValue ==
               SumSeq([i \in 1..Len(trick) |-> getCardValue(trick[i].card)])
           cardsToBeatHighest ==
               SelectSeq(currentHand, LAMBDA c :
                   IF isBriscolaPlayedInTrick
                   THEN c.suit = briscolaSuit /\ getCardValue(c) > best
                   ELSE \/ c.suit = dominantSuitInTrick /\ getCardValue(c) > best
                        \/ c.suit = briscolaSuit)
           potentialSameSuitWinners ==
               SelectSeq(currentHand, LAMBDA c :
                   c.suit = dominantSuitInTrick /\ getCardValue(c) > best)
           potentialBriscolaWinners ==
               SelectSeq(currentHand, LAMBDA c :
                   /\ c.suit = briscolaSuit
                   /\ isBriscolaPlayedInTrick => getCardValue(c) > best)
       IN IF currentTrickValue >= WINNING_THRESHOLD
               \/ cardsToBeatHighest # <<>>
          THEN IF potentialSameSuitWinners # <<>>
               THEN getLowestCardInHand(potentialSameSuitWinners)
               ELSE IF potentialBriscolaWinners # <<>>
                    THEN getLowestCardInHand(potentialBriscolaWinners)
                    ELSE NoCard
          ELSE NoCard

----------------------------------------------------------------------------
(* Deck engine and trick resolver *)

NoPlay == [playerId |-> NoId, card |-> NoCard]

\* the cards a hand of handLen cards draws from the tail of d
DrawCount(handLen, d) == Max(0, Min(CARDS_PER_HAND - handLen, Len(d)))

Drawn(d, n) == [k \in 1..n |-> d[Len(d) - k + 1]]

RECURSIVE DealFrom(_, _, _)
DealFrom(ps, d, i) ==
    IF i > Len(ps) THEN [players |-> ps, deck |-> d]
    ELSE LET n == DrawCount(0, d)
         IN DealFrom([ps EXCEPT ![i].hand = Drawn(d, n)],
                     SubSeq(d, 1, Len(d) - n), i + 1)

dealCards(s) ==
    LET r == DealFrom(s.players, s.deck, 1)
    IN [s EXCEPT !.players = r.players, !.deck = r.deck]

RECURSIVE RefillFrom(_, _, _)
RefillFrom(ps, d, i) ==
    IF i > Len(ps) THEN [players |-> ps, deck |-> d]
    ELSE LET n == DrawCount(Len(ps[i].hand), d)
         IN RefillFrom([ps EXCEPT ![i].hand = @ \o Drawn(d, n)],
                       SubSeq(d, 1, Len(d) - n), i + 1)

\* a refillHands that takes the cards it draws off the head of the deck
refillHandsOffHead(s) ==
    IF s.deck = <<>> THEN s
    ELSE LET r == RefillFrom(s.players, s.deck, 1)
         IN [s EXCEPT !.players = r.players,
                      !.deck = SubSeq(s.deck, Len(s.deck) - Len(r.deck) + 1,
                                      Len(s.deck))]

\* a refillHands that draws no card
skipRefill(s) == s

refillHands(s) ==
    IF s.deck = <<>> THEN s
    ELSE LET r == RefillFrom(s.players, s.deck, 1)
         IN [s EXCEPT !.players = r.players, !.deck = r.deck]

RECURSIVE RoundWinnerFrom(_, _, _)
\* the loop of determineRoundWinner; acc is (winner, maxValue, maxNumber)
RoundWinnerFrom(acc, rest, dominantSuit) ==
    IF rest = <<>> THEN acc.winner
    ELSE LET pc == rest[1]
             value == getCardValue(pc.card)
             better ==
                /\ pc.card.suit = dominantSuit
                /\ \/ value > acc.maxValue
                   \/ value = acc.maxValue /\ value = 0
                        /\ pc.card.number > acc.maxNumber
         IN RoundWinnerFrom(
                IF better
                THEN [winner |-> pc, maxValue |-> value,
                      maxNumber |-> pc.card.number]
                ELSE acc,
                Tail(rest), dominantSuit)

\* a trick resolution that takes the suit led as dominant, trump or not
RoundWinnerOfLeadSuit(trick, briscolaSuit) ==
    RoundWinnerFrom([winner |-> NoPlay, maxValue |-> -1, maxNumber |-> -1],
                    trick, IF trick # <<>> THEN trick[1].card.suit ELSE "none")

\* the winner of the trick trick under the trump suit briscolaSuit
RoundWinnerOf(trick, briscolaSuit) ==
    LET briscolaPlayed ==
            \E i \in 1..Len(trick) : trick[i].card.suit = briscolaSuit
        dominantSuit ==
            IF briscolaPlayed THEN briscolaSuit
            ELSE IF trick # <<>> THEN trick[1].card.suit ELSE "none"
    IN RoundWinnerFrom([winner |-> NoPlay, maxValue |-> -1, maxNumber |-> -1],
                       trick, dominantSuit)

determineRoundWinner(s) == RoundWinnerOf(s.playedCards, s.lastCard.suit)

ScoreOf(cards) ==
    SumSeq([i \in 1..Len(cards) |-> getCardValue(cards[i])])

\* a distributeCards that gives the cards of the trick to nobody
discardTrick(s, roundWinner) ==
    [s EXCEPT !.lastRoundWinner = roundWinner.playerId]

distributeCards(s, roundWinner) ==
    LET s1 == [s EXCEPT !.lastRoundWinner = roundWinner.playerId]
        w == PlayerIndexOf(s, roundWinner.playerId)
        won == [i \in 1..Len(s.playedCards) |-> s.playedCards[i].card]
    IN IF roundWinner # NoPlay /\ w # 0
       THEN [s1 EXCEPT !.players[w].wonCards = @ \o won,
                       !.players[w].score = ScoreOf(s.players[w].wonCards \o won)]
       ELSE s1

prepareNextRound(s, timeoutMS) ==
    LET w == PlayerIndexOf(s, s.lastRoundWinner)
    IN setNextTurn(
           [s EXCEPT !.playedCards = <<>>,
                     !.currentRound = @ + 1,
                     !.currentPlayerIndex =
                         IF s.lastRoundWinner # NoId /\ w # 0
                         THEN w - 1 ELSE 0],
           timeoutMS, ROUND_RESOLUTION_BUFFER_MS)

isGameEnded(s) == \E i \in 1..Len(s.players) : s.players[i].hand = <<>>

RECURSIVE WinnerFrom(_, _, _)
\* players.reduce((winner, player) => (!winner || player.score >
\* winner.score) ? player : winner, undefined); best = 0 is undefined
WinnerFrom(ps, best, i) ==
    IF i > Len(ps) THEN best
    ELSE WinnerFrom(ps, IF best = 0 \/ ps[i].score > ps[best].score
                        THEN i ELSE best, i + 1)

\* an endGame that records the last seat among those with the top score
endGameLastSeat(s) ==
    LET top == {i \in 1..Len(s.players) :
                  \A j \in 1..Len(s.players) :
                     s.players[j].score <= s.players[i].score}
    IN [s EXCEPT !.gamePhase = "ended",
                 !.winner = IF top = {} THEN NoId
                            ELSE s.players[CHOOSE i \in top :
                                              \A j \in top : j <= i].id]

endGame(s) ==
    LET w == WinnerFrom(s.players, 0, 1)
    IN [s EXCEPT !.gamePhase = "ended",
                 !.winner = IF w = 0 THEN NoId ELSE s.players[w].id]

----------------------------------------------------------------------------
(* Playing a card.  trace lists the cards played within one step, each with
   who chose it: "player" (a play-card intent), "timer" or "ai".

   In the code executeCardPlay and resolveRound end by calling
   setTurnTimeout, which for an AI calls processAITurn, playCard and
   executeCardPlay again; nothing is changed after such a call returns.
   Here the call is recorded in the field arm and made by Settle, which
   repeats until no call is left, so that each operator below is one level
   of that chain. *)

resolveRound(s, timeoutMS) ==
    LET s1 == prepareNextRound(
                  refillHands(distributeCards(s, determineRoundWinner(s))),
                  timeoutMS)
    IN IF isGameEnded(s1) THEN endGame(s1) ELSE [s1 EXCEPT !.arm = TRUE]

executeCardPlay(s, p, cardIndex, by) ==
    LET player == s.players[p]
        playedCard == player.hand[cardIndex]
        s1 == [s EXCEPT
                 !.players[p].hand = RemoveAt(@, cardIndex),
                 !.playedCards =
                     Append(@, [playerId |-> player.id, card |-> playedCard]),
                 !.currentPlayerIndex = (@ + 1) % Len(s.players),
                 !.staleTimers = s.pendingTimers,
                 !.trace = Append(@, [playerId |-> player.id,
                                      card |-> playedCard, by |-> by])]
        s2 == clearTurnTimeout(s1)
        ttMS == getTurnTimeoutMS(s2)
    IN IF Len(s2.playedCards) = Len(s2.players)
       THEN resolveRound(s2, ttMS)
       ELSE [setNextTurn(s2, ttMS, 0) EXCEPT !.arm = TRUE]

playCard(s, playerId, card, by) ==
    IF ~s.live THEN Throw(s, "Game not found")
    ELSE IF s.gamePhase # "playing" THEN Throw(s, "Game not in progress")
    ELSE LET p == PlayerIndexOf(s, playerId)
         IN IF p = 0 THEN Throw(s, "Player not found")
            ELSE LET cardIndex ==
                         FindIndex(s.players[p].hand, LAMBDA c : c = card)
                 IN IF cardIndex = 0 THEN Throw(s, "Card not in hand")
                    ELSE executeCardPlay(s, p, cardIndex, by)

\* players[currentPlayerIndex] undefined makes the code throw a TypeError
\* before anything is changed
processAITurn(s) ==
    IF ~s.live \/ s.gamePhase # "playing" THEN s
    ELSE IF ~HasCurrentPlayer(s) THEN s
    ELSE IF ~CurrentPlayer(s).isAI \/ CurrentPlayer(s).hand = <<>> THEN s
    ELSE LET r == playCard(s, CurrentPlayer(s).id,
                           computeChosenCard(s, CurrentPlayer(s)), "ai")
         IN [r EXCEPT !.err = ""]

\* a setTurnTimeout that arms a timer for an AI as it does for a Human
setTurnTimeoutForAll(s) ==
    LET s1 == clearTurnTimeout(s)
    IN IF ~s1.live \/ s1.gamePhase # "playing" THEN s1
       ELSE IF ~HasCurrentPlayer(s1) \/ CurrentPlayer(s1).hand = <<>> THEN s1
       ELSE ArmTimer(s1)

setTurnTimeout(s) ==
    LET s1 == clearTurnTimeout(s)
    IN IF ~s1.live \/ s1.gamePhase # "playing" THEN s1
       ELSE IF ~HasCurrentPlayer(s1) \/ CurrentPlayer(s1).hand = <<>> THEN s1
       ELSE IF CurrentPlayer(s1).isAI THEN processAITurn(s1)
       ELSE ArmTimer(s1)

RECURSIVE Settle(_)
Settle(s) ==
    IF s.arm THEN Settle(setTurnTimeout([s EXCEPT !.arm = FALSE])) ELSE s

----------------------------------------------------------------------------
(* Kick cooldown *)

\* a cleanup that forgets every ban of the lobby, expired or not
cleanupAllKicks(kicked, lobbyCode, t) ==
    [kicked EXCEPT ![lobbyCode] = <<>>]

cleanupExpiredKicks(kicked, lobbyCode, t) ==
    [kicked EXCEPT ![lobbyCode] =
        [n \in {m \in DOMAIN kicked[lobbyCode] : ~(kicked[lobbyCode][m] < t)}
            |-> kicked[lobbyCode][n]]]

\* an isPlayerKicked that reports a ban with no time left as still in force
isPlayerKickedAtExpiry(kicked, lobbyCode, playerName, t) ==
    IF playerName \notin DOMAIN kicked[lobbyCode]
    THEN [isKicked |-> FALSE, remainingMs |-> 0]
    ELSE LET remainingMs == Max(0, kicked[lobbyCode][playerName] - t)
         IN [isKicked |-> remainingMs >= 0, remainingMs |-> remainingMs]

isPlayerKicked(kicked, lobbyCode, playerName, t) ==
    IF playerName \notin DOMAIN kicked[lobbyCode]
          \/ kicked[lobbyCode][playerName] = 0
    THEN [isKicked |-> FALSE, remainingMs |-> 0]
    ELSE LET remainingMs == Max(0, kicked[lobbyCode][playerName] - t)
         IN [isKicked |-> remainingMs > 0, remainingMs |-> remainingMs]

\* an addKickedPlayer that bans the name under every lobby code
addKickedPlayerEverywhere(kicked, lobbyCode, playerName, t) ==
    [c \in DOMAIN kicked |->
        [n \in DOMAIN kicked[c] \cup {playerName} |->
            IF n = playerName THEN t + KICK_TIMEOUT_MS ELSE kicked[c][n]]]

addKickedPlayer(kicked, lobbyCode, playerName, t) ==
    [kicked EXCEPT ![lobbyCode] =
        [n \in DOMAIN kicked[lobbyCode] \cup {playerName} |->
            IF n = playerName THEN t + KICK_TIMEOUT_MS
            ELSE kicked[lobbyCode][n]]]

----------------------------------------------------------------------------
(* Player lifecycle *)

NewPlayer(id, name, isHost, isAI) ==
    [id |-> id, name |-> name, isHost |-> isHost, isAI |-> isAI,
     score |-> 0, hand |-> <<>>, wonCards |-> <<>>]

\* the session is removed from the store: only the timers and the bans,
\* which the manager keeps per lobby code, outlive it
NoGame(s) ==
    [s EXCEPT !.live = FALSE, !.players = <<>>, !.currentPlayerIndex = 0,
              !.gamePhase = "lobby", !.maxPlayers = DefaultMaxPlayers,
              !.currentRound = 1, !.deck = <<>>, !.lastCard = NoCard,
              !.playedCards = <<>>, !.lastRoundWinner = NoId,
              !.winner = NoId, !.speed = "normal",
              !.turnStartTimestamp = NoTime, !.turnEndTimestamp = NoTime]

createLobby(s, playerName, newId) ==
    [NoGame(s) EXCEPT
        !.live = TRUE,
        !.players = <<NewPlayer(newId, cleanPlayerName(playerName),
                                TRUE, FALSE)>>]

findReconnectableAI(s, playerName) ==
    FindIndex(s.players,
              LAMBDA p : p.name = playerName \o <<"bot">> /\ p.isAI)

reconnectAIPlayer(s, ai) ==
    [s EXCEPT !.players[ai].isAI = FALSE,
              !.players[ai].name = cleanPlayerName(@)]

addNewPlayer(s, playerName, newId) ==
    [s EXCEPT !.players = Append(@, NewPlayer(newId, playerName, FALSE, FALSE))]

\* validateJoinConditions followed by reconnectAIPlayer or addNewPlayer
joinLobby(s, lobbyCode, playerName, newId, t) ==
    IF lobbyCode # s.lobbyCode \/ ~s.live THEN Throw(s, "Lobby not found")
    ELSE
    LET cleanName == cleanPlayerName(playerName)
        s1 == [s EXCEPT !.kickedPlayers =
                            cleanupExpiredKicks(@, lobbyCode, t)]
        kickStatus == isPlayerKicked(s1.kickedPlayers, lobbyCode, cleanName, t)
        reconnectableAI == findReconnectableAI(s1, cleanName)
    IN IF kickStatus.isKicked
       THEN [s1 EXCEPT !.err = "KICK_TIMEOUT",
                       !.remainingMs = kickStatus.remainingMs]
       ELSE IF Len(s1.players) >= s1.maxPlayers
       THEN Throw(s1, "Lobby is full")
       ELSE IF \E i \in 1..Len(s1.players) : s1.players[i].name = cleanName
       THEN Throw(s1, "This player has already joined the lobby")
       ELSE IF s1.gamePhase = "playing" /\ reconnectableAI = 0
       THEN Throw(s1, "Game already started, cannot join now")
       ELSE IF reconnectableAI # 0
       THEN reconnectAIPlayer(s1, reconnectableAI)
       ELSE addNewPlayer(s1, cleanName, newId)

\* validateGameExists and validateHost: the error they throw, "" if none
HostError(s, playerId) ==
    IF ~s.live THEN "Game not found"
    ELSE IF PlayerIndexOf(s, playerId) = 0 THEN "Player not found"
    ELSE IF ~s.players[PlayerIndexOf(s, playerId)].isHost
    THEN "Only the host can perform this action"
    ELSE ""

initializeGameState(s) ==
    [setNextTurn(s, getTurnTimeoutMS(s), 0) EXCEPT
              !.gamePhase = "playing",
              !.currentPlayerIndex = 0,
              !.currentRound = 1,
              !.players = [i \in 1..Len(s.players) |->
                              [s.players[i] EXCEPT !.score = 0,
                                                   !.hand = <<>>,
                                                   !.wonCards = <<>>]]]

startGame(s, playerId, key) ==
    IF HostError(s, playerId) # "" THEN Throw(s, HostError(s, playerId))
    ELSE IF Len(s.players) < MinPlayers
    THEN Throw(s, "Need at least 2 players to start")
    ELSE IF Len(s.players) > MaxStartPlayers
    THEN Throw(s, "Too many players, maximum is 5")
    ELSE LET d == createAndShuffleDeck(Len(s.players), key)
             s1 == [initializeGameState(s) EXCEPT
                        !.deck = d,
                        !.lastCard = IF d # <<>> THEN d[1] ELSE NoCard,
                        !.playedCards = <<>>]
         IN Settle(setTurnTimeout(dealCards(s1)))

addBotToLobby(s, botName, newId) ==
    IF ~s.live THEN Throw(s, "Game not found")
    ELSE IF s.gamePhase # "lobby" THEN Throw(s, "Can only add bots in lobby")
    ELSE IF Len(s.players) >= s.maxPlayers THEN Throw(s, "Lobby is full")
    ELSE IF \E i \in 1..Len(s.players) : s.players[i].name = botName \o <<"bot">>
    THEN Throw(s, "Could not generate unique bot name")
    ELSE [s EXCEPT !.players =
             Append(@, NewPlayer(newId, botName \o <<"bot">>, FALSE, TRUE))]

\* a transferHostRole that gives host status to the last of the Humans
transferHostRoleToLast(ps, excludePlayerId) ==
    LET humans == {i \in 1..Len(ps) : ~ps[i].isAI /\ ps[i].id # excludePlayerId}
    IN IF humans = {} THEN ps
       ELSE [i \in 1..Len(ps) |->
                [ps[i] EXCEPT !.isHost =
                    (i = CHOOSE h \in humans : \A g \in humans : g <= h)]]

\* a transferHostRole that leaves host status where it is
keepHostRole(ps, excludePlayerId) == ps

\* the players after transferHostRole; unchanged when it returns false
transferHostRole(ps, excludePlayerId) ==
    LET first == FindIndex(ps, LAMBDA p : ~p.isAI /\ p.id # excludePlayerId)
    IN IF first = 0 THEN ps
       ELSE [i \in 1..Len(ps) |-> [ps[i] EXCEPT !.isHost = (i = first)]]

CanTransferHost(ps, excludePlayerId) ==
    \E i \in 1..Len(ps) : ~ps[i].isAI /\ ps[i].id # excludePlayerId

kickPlayer(s, hostId, targetPlayerId, t) ==
    IF HostError(s, hostId) # "" THEN Throw(s, HostError(s, hostId))
    ELSE LET targetIndex == PlayerIndexOf(s, targetPlayerId)
         IN IF targetIndex = 0 THEN Throw(s, "Player not found")
            ELSE [s EXCEPT
                    !.kickedPlayers =
                        IF ~s.players[targetIndex].isAI
                        THEN addKickedPlayer(@, s.lobbyCode,
                                             s.players[targetIndex].name, t)
                        ELSE @,
                    !.players = RemoveAt(@, targetIndex),
                    !.currentPlayerIndex =
                        IF @ >= targetIndex - 1 /\ @ > 0 THEN @ - 1 ELSE @]

finalizePlayerLeave(s) ==
    IF ~\E i \in 1..Len(s.players) : ~s.players[i].isAI
    THEN NoGame(s)
    ELSE s

handleIngameLeave(s, p) ==
    LET player == s.players[p]
        wasCurrentPlayer ==
            HasCurrentPlayer(s) /\ CurrentPlayer(s).id = player.id
        s1 == [s EXCEPT !.players[p].isAI = TRUE,
                        !.players[p].name =
                            IF EndsWithBot(@) THEN @ ELSE @ \o <<"bot">>]
    IN IF player.isHost /\ ~CanTransferHost(s1.players, player.id)
       THEN NoGame(s1)
       ELSE LET s2 == IF player.isHost
                      THEN [s1 EXCEPT !.players =
                                transferHostRole(@, player.id)]
                      ELSE s1
                s3 == IF s2.gamePhase = "playing" /\ wasCurrentPlayer
                      THEN Settle(processAITurn(clearTurnTimeout(s2)))
                      ELSE s2
            IN finalizePlayerLeave(s3)

handleLobbyLeave(s, p) ==
    LET player == s.players[p]
        s1 == [s EXCEPT !.players = RemoveAt(@, p)]
    IN IF player.isHost /\ ~CanTransferHost(s1.players, NoId)
       THEN NoGame(s1)
       ELSE finalizePlayerLeave(
                IF player.isHost
                THEN [s1 EXCEPT !.players = transferHostRole(@, NoId)]
                ELSE s1)

\* leaveGame for the socket mapped to playerId
leaveGame(s, playerId) ==
    LET p == PlayerIndexOf(s, playerId)
    IN IF ~s.live \/ p = 0 THEN s
       ELSE IF s.gamePhase \in {"playing", "ended"}
       THEN handleIngameLeave(s, p)
       ELSE handleLobbyLeave(s, p)

returnToLobby(s) ==
    IF ~s.live THEN Throw(s, "Game not found")
    ELSE [s EXCEPT !.gamePhase = "lobby",
                   !.currentPlayerIndex = 0,
                   !.winner = NoId,
                   !.currentRound = 1,
                   !.players = [i \in 1..Len(s.players) |->
                                   [s.players[i] EXCEPT !.hand = <<>>]]]

\* pick is Math.floor(Math.random() * player.hand.length) + 1
handleTurnTimeout(s, pick) ==
    IF ~s.live \/ s.gamePhase # "playing" THEN s
    ELSE IF ~HasCurrentPlayer(s) \/ CurrentPlayer(s).hand = <<>> THEN s
    ELSE LET player == CurrentPlayer(s)
             r == Settle(playCard(s, player.id, player.hand[pick], "timer"))
         IN [r EXCEPT !.err = ""]

----------------------------------------------------------------------------
(* Inputs *)

\* the names people type
JoinNames == {<<"a">>, <<"b">>}

\* the outcomes of generateRandomName that are explored
BotNames == {<<"Rossi">>}

\* the values sent with change-max-players
MaxPlayersInputs == {2}

\* every Human player of the session has a socket mapped to its id
Humans == {players[i].id : i \in {j \in 1..Len(players) : ~players[j].isAI}}

UsedIds ==
    {players[i].id : i \in 1..Len(players)}
        \cup {playedCards[i].playerId : i \in 1..Len(playedCards)}
        \cup {lastRoundWinner, winner}

\* uuidv4(): an id nothing refers to
FreshId == CHOOSE n \in 1..(Cardinality(UsedIds) + 1) :
               n \notin UsedIds /\ \A m \in 1..(n - 1) : m \in UsedIds

HandOf(playerId) ==
    LET p == PlayerIndexOf(GameState, playerId)
    IN IF p = 0 THEN <<>> ELSE players[p].hand

----------------------------------------------------------------------------
(* Steps *)

Commit(s) ==
    /\ live' = s.live
    /\ players' = s.players
    /\ currentPlayerIndex' = s.currentPlayerIndex
    /\ gamePhase' = s.gamePhase
    /\ maxPlayers' = s.maxPlayers
    /\ currentRound' = s.currentRound
    /\ deck' = s.deck
    /\ lastCard' = s.lastCard
    /\ playedCards' = s.playedCards
    /\ lastRoundWinner' = s.lastRoundWinner
    /\ winner' = s.winner
    /\ turnTimeouts' = s.turnTimeouts
    /\ pendingTimers' = s.pendingTimers
    /\ staleTimers' = s.staleTimers
    /\ armedFor' = [t \in s.pendingTimers |-> s.armedFor[t]]
    /\ fireAt' = [t \in s.pendingTimers |-> s.fireAt[t]]
    /\ speed' = s.speed
    /\ turnStartTimestamp' = s.turnStartTimestamp
    /\ turnEndTimestamp' = s.turnEndTimestamp
    /\ kickedPlayers' = s.kickedPlayers

Op(op, actor, target, name, card, s) ==
    [op |-> op, code |-> LobbyCode, actor |-> actor, target |-> target,
     name |-> name, card |-> card, err |-> s.err,
     remainingMs |-> s.remainingMs, trace |-> s.trace]

\* opsUsed counts the steps taken, up to MaxOps + 1, leaving out those that
\* set a match up or carry it on: creating a lobby, an accepted join, add-bot
\* or start from the lobby phase, the play of the due player's first card
\* (by intent or by timer) and the return to the lobby.
Spend(cost) == opsUsed' = Min(opsUsed + cost, MaxOps + 1)

\* the steps that are explored
WithinBudget == opsUsed' <= MaxOps

\* card plays are explored in the rounds up to MaxRounds
Horizon == currentRound <= MaxRounds

DefaultPlay(actor, card) ==
    /\ HasCurrentPlayer(GameState)
    /\ CurrentPlayer(GameState).id = actor
    /\ CurrentPlayer(GameState).hand # <<>>
    /\ card = CurrentPlayer(GameState).hand[1]

CreateLobby(playerName) ==
    /\ ~live
    /\ \E s \in {createLobby(GameState, playerName, FreshId)} :
          /\ Commit(s)
          /\ lastOp' = Op("create-lobby", NoId, NoId, playerName, NoCard, s)
    /\ inRoom' = inRoom \cup {FreshId}
    /\ Spend(0)
    /\ UNCHANGED <<chat, sent, otherGames, returnTimers, now, kickedAt>>

JoinLobby(lobbyCode, playerName) ==
    /\ \E s \in {joinLobby(GameState, lobbyCode, playerName, FreshId, now)} :
          /\ Commit(s)
          /\ lastOp' = [Op("join-lobby", NoId, NoId, playerName, NoCard, s)
                           EXCEPT !.code = lobbyCode]
          /\ Spend(IF s.err = "" THEN 0 ELSE 1)
          /\ inRoom' =
                IF s.err # "" THEN inRoom
                ELSE inRoom \cup
                        {s.players[i].id :
                            i \in {j \in 1..Len(s.players) :
                                      /\ ~s.players[j].isAI
                                      /\ s.players[j].id \notin Humans}}
    /\ UNCHANGED <<chat, sent, otherGames, returnTimers, now, kickedAt>>

StartGame(actor, key) ==
    /\ \E s \in {IF actor \in inRoom THEN startGame(GameState, actor, key)
                 ELSE Throw(GameState, "Lobby not found")} :
          /\ Commit(s)
          /\ lastOp' = Op("start-game", actor, NoId, <<>>, NoCard, s)
          /\ Spend(IF gamePhase = "lobby" /\ s.err = "" THEN 0 ELSE 1)
    /\ UNCHANGED <<chat, sent, otherGames,
                   returnTimers, inRoom, now, kickedAt>>

\* the play-card handler: playCard, then the 5 s returnToLobby timer when
\* the match has ended, else processAITurn when an AI is due
PlayCard(actor, card) ==
    /\ \E r \in {IF actor \in inRoom
                 THEN Settle(playCard(GameState, actor, card, "player"))
                 ELSE Throw(GameState, "Lobby not found")} :
       \E s \in {IF r.err = "" /\ r.gamePhase = "playing"
                      /\ HasCurrentPlayer(r) /\ CurrentPlayer(r).isAI
                 THEN Settle(processAITurn(r))
                 ELSE r},
          ended \in {r.err = "" /\ r.gamePhase = "ended"} :
          /\ ended => returnTimers < MaxReturnTimers
          /\ Commit(s)
          /\ returnTimers' = IF ended THEN returnTimers + 1 ELSE returnTimers
          /\ lastOp' = Op("play-card", actor, NoId, <<>>, card, s)
          /\ Spend(IF DefaultPlay(actor, card) THEN 0 ELSE 1)
    /\ UNCHANGED <<chat, sent, otherGames, inRoom, now, kickedAt>>

\* a pending turn timer fires: handleTurnTimeout
TimerFire(timer, pick) ==
    /\ timer \in pendingTimers
    /\ \E s \in {handleTurnTimeout(
                     [GameState EXCEPT !.pendingTimers = @ \ {timer},
                                       !.staleTimers = @ \ {timer}],
                     pick)} :
          /\ Commit(s)
          /\ lastOp' = Op("turn-timeout", NoId, timer, <<>>, NoCard, s)
          /\ Spend(IF pick = 1 THEN 0 ELSE 1)
    /\ UNCHANGED <<chat, sent, otherGames,
                   returnTimers, inRoom, now, kickedAt>>

\* the kick-player handler: the target's socket leaves the room, then
\* kickPlayer
KickPlayer(actor, targetPlayerId) ==
    /\ \E s \in {IF actor \in inRoom
                 THEN kickPlayer(GameState, actor, targetPlayerId, now)
                 ELSE Throw(GameState, "Lobby not found")},
          p \in {PlayerIndexOf(GameState, targetPlayerId)} :
          /\ Commit(s)
          /\ inRoom' = IF actor \in inRoom /\ targetPlayerId \in Humans
                       THEN inRoom \ {targetPlayerId}
                       ELSE inRoom
          /\ lastOp' = Op("kick-player", actor, targetPlayerId, <<>>, NoCard, s)
          /\ Spend(1)
          /\ kickedAt' =
                IF s.err = "" /\ p # 0 /\ ~players[p].isAI
                THEN [n \in DOMAIN kickedAt \cup {players[p].name} |->
                         IF n = players[p].name THEN now ELSE kickedAt[n]]
                ELSE kickedAt
    /\ UNCHANGED <<chat, sent, otherGames, returnTimers, now>>

LeaveLobby(actor) ==
    /\ \E s \in {leaveGame(GameState, actor)} :
          /\ Commit(s)
          /\ lastOp' = Op("leave-lobby", actor, NoId, <<>>, NoCard, s)
          /\ Spend(1)
    /\ inRoom' = inRoom \ {actor}
    /\ UNCHANGED <<chat, sent, otherGames, returnTimers, now, kickedAt>>

\* the disconnect handler: leaveGame, then processAITurn when the session
\* is still there, playing, and an AI is due
Disconnect(actor) ==
    /\ \E r \in {leaveGame(GameState, actor)} :
       \E s \in {IF r.live /\ r.gamePhase = "playing"
                      /\ HasCurrentPlayer(r) /\ CurrentPlayer(r).isAI
                 THEN Settle(processAITurn(r))
                 ELSE r} :
          /\ Commit(s)
          /\ lastOp' = Op("disconnect", actor, NoId, <<>>, NoCard, s)
          /\ Spend(1)
    /\ inRoom' = inRoom \ {actor}
    /\ UNCHANGED <<chat, sent, otherGames, returnTimers, now, kickedAt>>

\* the add-bot intent: host-only, then addBotToLobby
AddBot(actor, botName) ==
    /\ \E s \in {IF actor \notin inRoom
                 THEN Throw(GameState, "Lobby not found")
                 ELSE IF HostError(GameState, actor) # ""
                 THEN Throw(GameState, HostError(GameState, actor))
                 ELSE addBotToLobby(GameState, botName, FreshId)} :
          /\ Commit(s)
          /\ lastOp' = Op("add-bot", actor, NoId, botName, NoCard, s)
          /\ Spend(IF s.err = "" THEN 0 ELSE 1)
    /\ UNCHANGED <<chat, sent, otherGames,
                   returnTimers, inRoom, now, kickedAt>>

ChangeMaxPlayers(actor, n) ==
    /\ \E p \in {PlayerIndexOf(GameState, actor)} :
       \E s \in {IF actor \notin inRoom
                 THEN Throw(GameState, "Lobby not found")
                 ELSE IF p = 0 THEN Throw(GameState, "Player not found")
                 ELSE IF ~players[p].isHost
                 THEN Throw(GameState, "Only the host can change max players")
                 ELSE IF gamePhase # "lobby"
                 THEN Throw(GameState, "Cannot change max players during game")
                 ELSE IF n < Len(players)
                 THEN Throw(GameState,
                        "Cannot set max players less than current player count")
                 ELSE [GameState EXCEPT !.maxPlayers = n]} :
          /\ Commit(s)
          /\ lastOp' = Op("change-max-players", actor, n, <<>>, NoCard, s)
          /\ Spend(1)
    /\ UNCHANGED <<chat, sent, otherGames,
                   returnTimers, inRoom, now, kickedAt>>

\* the change-speed handler
ChangeSpeed(actor, newSpeed) ==
    /\ \E p \in {PlayerIndexOf(GameState, actor)} :
       \E s \in {IF actor \notin inRoom
                 THEN Throw(GameState, "Lobby not found")
                 ELSE IF p = 0 THEN Throw(GameState, "Player not found")
                 ELSE IF ~players[p].isHost
                 THEN Throw(GameState, "Only the host can change game speed")
                 ELSE IF gamePhase # "lobby"
                 THEN Throw(GameState, "Cannot change game speed during game")
                 ELSE IF newSpeed \notin speedOptions
                 THEN Throw(GameState, "Bad speed value")
                 ELSE [GameState EXCEPT !.speed = newSpeed]} :
          /\ Commit(s)
          /\ lastOp' = [Op("change-speed", actor, NoId, <<>>, NoCard, s)
                           EXCEPT !.name = <<newSpeed>>]
          /\ Spend(IF s.err = "" THEN 0 ELSE 1)
    /\ UNCHANGED <<chat, sent, otherGames,
                   returnTimers, inRoom, now, kickedAt>>

\* the transport's delayed returnToLobby fires
ReturnToLobby ==
    /\ returnTimers > 0
    /\ returnTimers' = returnTimers - 1
    /\ \E s \in {returnToLobby(GameState)} :
          /\ Commit(s)
          /\ lastOp' = Op("return-to-lobby", NoId, NoId, <<>>, NoCard, s)
          /\ Spend(0)
    /\ UNCHANGED <<chat, sent, otherGames, inRoom, now, kickedAt>>

\* time passes
Tick ==
    /\ now + TickMs <= MaxNow
    /\ now' = now + TickMs
    /\ lastOp' = Op("tick", NoId, NoId, <<>>, NoCard, GameState)
    /\ UNCHANGED <<chat, sent, otherGames,
                   live, players, currentPlayerIndex, gamePhase, maxPlayers,
                   currentRound, deck, lastCard, playedCards, lastRoundWinner,
                   winner, turnTimeouts, pendingTimers, staleTimers,
                   armedFor, fireAt, speed, turnStartTimestamp, turnEndTimestamp,
                   returnTimers, kickedPlayers,
                   inRoom, kickedAt, opsUsed>>

----------------------------------------------------------------------------
(* Specifications *)

Init ==
    /\ live = FALSE
    /\ players = <<>>
    /\ currentPlayerIndex = 0
    /\ gamePhase = "lobby"
    /\ maxPlayers = DefaultMaxPlayers
    /\ currentRound = 1
    /\ deck = <<>>
    /\ lastCard = NoCard
    /\ playedCards = <<>>
    /\ lastRoundWinner = NoId
    /\ winner = NoId
    /\ turnTimeouts = NoTimer
    /\ pendingTimers = {}
    /\ staleTimers = {}
    /\ armedFor = <<>>
    /\ fireAt = <<>>
    /\ speed = "normal"
    /\ turnStartTimestamp = NoTime
    /\ turnEndTimestamp = NoTime
    /\ returnTimers = 0
    /\ kickedPlayers = [c \in LobbyCodes |-> <<>>]
    /\ inRoom = {}
    /\ now = 0
    /\ kickedAt = <<>>
    /\ otherGames = [c \in OtherCodes |-> NoSession]
    /\ chat = <<>>
    /\ sent = <<>>
    /\ opsUsed = 0
    /\ lastOp = [op |-> "init", code |-> LobbyCode, actor |-> NoId, target |-> NoId,
                 name |-> <<>>, card |-> NoCard, err |-> "",
                 remainingMs |-> 0, trace |-> <<>>]

\* the card a timer may pick: an index of the due player's hand
Picks ==
    IF HasCurrentPlayer(GameState)
    THEN 1..Max(1, Len(CurrentPlayer(GameState).hand))
    ELSE {1}

\* no counted step has been taken yet
Pristine == opsUsed = 0

\* Steps are explored in the rounds up to MaxRounds and outside play; past
\* these rounds a match that is still pristine is carried on to its end by
\* plays of the due player's first card.
Explored == gamePhase = "playing" => Horizon

Next ==
    \/ \E n \in JoinNames : CreateLobby(n) /\ WithinBudget
    \/ \E c \in LobbyCodes, n \in JoinNames :
          Explored /\ JoinLobby(c, n) /\ WithinBudget
    \/ \E a \in Humans, k \in ShuffleKeys :
          Explored /\ StartGame(a, k) /\ WithinBudget
    \/ \E a \in Humans :
          \E c \in {HandOf(a)[i] : i \in 1..Len(HandOf(a))} \cup {NoCard} :
             /\ Explored \/ (Pristine /\ DefaultPlay(a, c))
             /\ PlayCard(a, c)
             /\ WithinBudget
    \/ \E t \in pendingTimers, pick \in Picks :
          /\ Explored \/ (Pristine /\ pick = 1)
          /\ TimerFire(t, pick)
          /\ WithinBudget
    \/ \E a \in Humans, target \in UsedIds :
          Explored /\ KickPlayer(a, target) /\ WithinBudget
    \/ \E a \in Humans : Explored /\ LeaveLobby(a) /\ WithinBudget
    \/ \E a \in Humans : Explored /\ Disconnect(a) /\ WithinBudget
    \/ \E a \in Humans, b \in BotNames :
          Explored /\ AddBot(a, b) /\ WithinBudget
    \/ \E a \in Humans, n \in MaxPlayersInputs :
          Explored /\ ChangeMaxPlayers(a, n) /\ WithinBudget
    \/ ReturnToLobby

Spec == Init /\ [][Next]_vars

\* The transport's timers fire: a scheduled returnToLobby is not put off
\* for ever.
SpecLive == Spec /\ WF_vars(ReturnToLobby)

\* The lobby and its clock: sessions that are never started, so that every
\* step is explored at every time up to MaxNow.
NextClock ==
    \/ \E n \in JoinNames : CreateLobby(n)
    \/ \E c \in LobbyCodes, n \in JoinNames : JoinLobby(c, n)
    \/ \E a \in Humans, target \in UsedIds : KickPlayer(a, target)
    \/ \E a \in Humans : LeaveLobby(a)
    \/ Tick

SpecClock == Init /\ [][NextClock]_vars

\* Leaving and joining again: every step is explored, in the lobby and in
\* the rounds of a match up to MaxRounds.
NextRejoin ==
    \/ \E n \in JoinNames : CreateLobby(n)
    \/ \E c \in LobbyCodes, n \in JoinNames : Explored /\ JoinLobby(c, n)
    \/ \E a \in Humans, k \in ShuffleKeys : Explored /\ StartGame(a, k)
    \/ \E a \in Humans : Explored /\ LeaveLobby(a)
    \/ \E a \in Humans, n \in MaxPlayersInputs :
          Explored /\ ChangeMaxPlayers(a, n)

SpecRejoin == Init /\ [][NextRejoin]_vars

\* The trick resolver alone: a session that is playing holds a trick of up
\* to MaxTrick distinct cards, played by the seats in order, under any trump
\* suit, and the resolver is applied to it.
TrickNumbers == {1, 2, 3, 7, 8, 9, 10}

TrickCards == [number : TrickNumbers, suit : {"a", "b", "c"}]

\* the tricks of n distinct cards, the card of seat i played by player i
Tricks(n) ==
    {[i \in 1..n |-> [playerId |-> i, card |-> f[i]]] :
        f \in {g \in [1..n -> TrickCards] :
                  \A i, j \in 1..n : g[i] = g[j] => i = j}}

InitTrick ==
    /\ live = TRUE
    /\ gamePhase = "playing"
    /\ \E n \in 1..MaxTrick :
          /\ playedCards \in Tricks(n)
          /\ players = [i \in 1..n |-> NewPlayer(i, <<"p">>, i = 1, FALSE)]
    /\ \E suit \in {Suits[i] : i \in 1..Len(Suits)} :
          lastCard = [number |-> 4, suit |-> suit]
    /\ currentPlayerIndex = 0
    /\ maxPlayers = DefaultMaxPlayers
    /\ currentRound = 1
    /\ deck = <<>>
    /\ lastRoundWinner = NoId
    /\ winner = NoId
    /\ turnTimeouts = NoTimer
    /\ pendingTimers = {}
    /\ staleTimers = {}
    /\ armedFor = <<>>
    /\ fireAt = <<>>
    /\ speed = "normal"
    /\ turnStartTimestamp = NoTime
    /\ turnEndTimestamp = NoTime
    /\ returnTimers = 0
    /\ kickedPlayers = [c \in LobbyCodes |-> <<>>]
    /\ inRoom = {}
    /\ now = 0
    /\ kickedAt = <<>>
    /\ otherGames = [c \in OtherCodes |-> NoSession]
    /\ chat = <<>>
    /\ sent = <<>>
    /\ opsUsed = 0
    /\ lastOp = [op |-> "init", code |-> LobbyCode, actor |-> NoId,
                 target |-> NoId, name |-> <<>>, card |-> NoCard, err |-> "",
                 remainingMs |-> 0, trace |-> <<>>]

\* determineRoundWinner is applied to the trick: lastOp names the play it
\* returns
DetermineRoundWinner ==
    /\ lastOp.op = "init"
    /\ \E w \in {determineRoundWinner(GameState)} :
          lastOp' = [lastOp EXCEPT !.op = "determine-round-winner",
                                   !.actor = w.playerId, !.card = w.card]
    /\ UNCHANGED <<chat, sent, otherGames,
                   live, players, currentPlayerIndex, gamePhase, maxPlayers,
                   currentRound, deck, lastCard, playedCards, lastRoundWinner,
                   winner, turnTimeouts, pendingTimers, staleTimers,
                   armedFor, fireAt, speed, turnStartTimestamp, turnEndTimestamp,
                   returnTimers, kickedPlayers,
                   inRoom, now, kickedAt,
                   opsUsed>>

SpecTrick == InitTrick /\ [][DetermineRoundWinner]_vars
\* Dealing: lobbies of up to two Humans and three bots, started (and, after
\* a Human has left the match to an AI, started again) under several
\* outcomes of the shuffle.
DealBotNames == {<<"Rossi">>, <<"Buffon">>, <<"Totti">>}

DealKeys == {<<1, 0>>, <<7, 3>>, <<11, 5>>}

NextDeal ==
    \/ \E n \in {<<"a">>} : CreateLobby(n)
    \/ \E n \in {<<"b">>} : JoinLobby(LobbyCode, n)
    \/ \E a \in Humans, b \in DealBotNames : AddBot(a, b)
    \/ \E a \in Humans, k \in DealKeys : StartGame(a, k)
    \/ \E a \in Humans : LeaveLobby(a)

SpecDeal == Init /\ [][NextDeal]_vars

\* The end of a match alone: a playing session of up to MaxEndPlayers
\* players whose hands and deck are empty, each player having won none,
\* one or both of the ace and the three of the seat's suit, so that scores
\* tie; endGame is applied to it.
WonChoices(suit) ==
    {<<>>, <<[number |-> 1, suit |-> suit]>>,
     <<[number |-> 3, suit |-> suit]>>,
     <<[number |-> 1, suit |-> suit], [number |-> 3, suit |-> suit]>>,
     <<[number |-> 8, suit |-> suit], [number |-> 9, suit |-> suit],
       [number |-> 10, suit |-> suit], [number |-> 8, suit |-> "d"]>>}

InitEnd ==
    /\ live = TRUE
    /\ gamePhase = "playing"
    /\ \E n \in 1..MaxEndPlayers :
          players \in
             {[i \in 1..n |->
                  [NewPlayer(i, <<"p">>, i = 1, i # 1) EXCEPT
                      !.wonCards = won[i], !.score = ScoreOf(won[i])]] :
              won \in {f \in [1..n -> UNION {WonChoices(Suits[k]) : k \in 1..3}] :
                          \A i \in 1..n : f[i] \in WonChoices(Suits[i])}}
    /\ currentPlayerIndex = 0
    /\ maxPlayers = DefaultMaxPlayers
    /\ currentRound = 2
    /\ deck = <<>>
    /\ lastCard = [number |-> 4, suit |-> "d"]
    /\ playedCards = <<>>
    /\ lastRoundWinner = 1
    /\ winner = NoId
    /\ turnTimeouts = NoTimer
    /\ pendingTimers = {}
    /\ staleTimers = {}
    /\ armedFor = <<>>
    /\ fireAt = <<>>
    /\ speed = "normal"
    /\ turnStartTimestamp = NoTime
    /\ turnEndTimestamp = NoTime
    /\ returnTimers = 0
    /\ kickedPlayers = [c \in LobbyCodes |-> <<>>]
    /\ inRoom = {1}
    /\ now = 0
    /\ kickedAt = <<>>
    /\ otherGames = [c \in OtherCodes |-> NoSession]
    /\ chat = <<>>
    /\ sent = <<>>
    /\ opsUsed = 0
    /\ lastOp = [op |-> "init", code |-> LobbyCode, actor |-> NoId,
                 target |-> NoId, name |-> <<>>, card |-> NoCard, err |-> "",
                 remainingMs |-> 0, trace |-> <<>>]

\* endGame is applied to the session
EndGame ==
    /\ lastOp.op = "init"
    /\ \E s \in {endGame(GameState)} :
          /\ Commit(s)
          /\ lastOp' = Op("end-game", NoId, NoId, <<>>, NoCard, s)
    /\ UNCHANGED <<chat, sent, otherGames,
                   returnTimers, inRoom, now, kickedAt, opsUsed>>

SpecEnd == InitEnd /\ [][EndGame]_vars

\* The lobby and its configuration: sessions that are never started, with
\* the values a client can send with change-max-players, in and out of the
\* range the lobby page offers.
ConfigInputs == {1, 2, 5, 6}

NextConfig ==
    \/ \E n \in {<<"a">>} : CreateLobby(n)
    \/ \E n \in JoinNames : JoinLobby(LobbyCode, n)
    \/ \E a \in Humans, n \in ConfigInputs : ChangeMaxPlayers(a, n)
    \/ \E a \in Humans, b \in BotNames : AddBot(a, b)
    \/ \E a \in Humans : LeaveLobby(a)

SpecConfig == Init /\ [][NextConfig]_vars

----------------------------------------------------------------------------
(* The session store: two lobby codes *)

\* games.get(code) with its timers, and the maps the manager shares
\* between the sessions
GameAt(code) ==
    IF code = LobbyCode THEN GameState
    ELSE [f \in DOMAIN GameState |->
             CASE f = "lobbyCode" -> code
               [] f \in DOMAIN NoSession -> otherGames[code][f]
               [] OTHER -> GameState[f]]

ReturnTimersAt(code) ==
    IF code = LobbyCode THEN returnTimers ELSE otherGames[code].returnTimers

\* games.set(code, s): the session and the timers of that code, and the
\* shared ban table
SetGame(code, s, pendingReturns) ==
    IF code = LobbyCode
    THEN /\ Commit(s)
         /\ returnTimers' = pendingReturns
         /\ otherGames' = otherGames
    ELSE /\ otherGames' =
               [otherGames EXCEPT ![code] =
                   [f \in DOMAIN NoSession |->
                       IF f = "returnTimers" THEN pendingReturns ELSE s[f]]]
         /\ kickedPlayers' = s.kickedPlayers
         /\ UNCHANGED <<live, players, currentPlayerIndex, gamePhase,
                        maxPlayers, currentRound, deck, lastCard,
                        playedCards, lastRoundWinner, winner, turnTimeouts,
                        pendingTimers, staleTimers, armedFor, fireAt, speed,
                        turnStartTimestamp, turnEndTimestamp,
                        returnTimers>>

IdsOf(s) ==
    {s.players[i].id : i \in 1..Len(s.players)}
        \cup {s.playedCards[i].playerId : i \in 1..Len(s.playedCards)}
        \cup {s.lastRoundWinner, s.winner}

HumansOf(s) ==
    {s.players[i].id : i \in {j \in 1..Len(s.players) : ~s.players[j].isAI}}

StoreIds == UNION {IdsOf(GameAt(c)) : c \in LobbyCodes}

\* uuidv4(): an id no session uses
StoreFreshId ==
    CHOOSE n \in 1..(Cardinality(StoreIds) + 1) :
        n \notin StoreIds /\ \A m \in 1..(n - 1) : m \in StoreIds

StoreHumans == UNION {HumansOf(GameAt(c)) : c \in LobbyCodes}

\* findPlayerGame: the code of the session that has the player
findPlayerGame(playerId) ==
    IF \E c \in LobbyCodes :
          GameAt(c).live /\ PlayerIndexOf(GameAt(c), playerId) # 0
    THEN CHOOSE c \in LobbyCodes :
            GameAt(c).live /\ PlayerIndexOf(GameAt(c), playerId) # 0
    ELSE "none"

\* the handlers' search of the rooms of the socket for a session that has
\* the player
RoomOf(playerId) ==
    IF playerId \in inRoom THEN findPlayerGame(playerId) ELSE "none"

\* the record of a step on the store: the operation, the code it is
\* addressed to and its error
StoreOp(op, code, actor, target, name, card, s) ==
    [Op(op, NoId, NoId, <<>>, NoCard, s) EXCEPT !.code = code,
                                                !.trace = <<>>]

\* create-lobby: generateLobbyCode draws the code
StoreCreate(code, playerName) ==
    /\ \E s \in {createLobby(GameAt(code), playerName, StoreFreshId)} :
          /\ SetGame(code, s, ReturnTimersAt(code))
          /\ lastOp' = StoreOp("create-lobby", code, NoId, NoId, playerName,
                               NoCard, s)
    /\ inRoom' = inRoom \cup {StoreFreshId}
    /\ opsUsed' = opsUsed + 1
    /\ UNCHANGED <<chat, sent, now, kickedAt>>

StoreJoin(code, playerName) ==
    /\ \E s \in {joinLobby(GameAt(code), code, playerName, StoreFreshId,
                            now)} :
          /\ SetGame(code, s, ReturnTimersAt(code))
          /\ lastOp' = StoreOp("join-lobby", code, NoId, NoId, playerName,
                               NoCard, s)
          /\ inRoom' = IF s.err # "" THEN inRoom
                       ELSE inRoom \cup (HumansOf(s) \ HumansOf(GameAt(code)))
    /\ opsUsed' = opsUsed + 1
    /\ UNCHANGED <<chat, sent, now, kickedAt>>

StoreAddBot(actor, botName) ==
    /\ RoomOf(actor) # "none"
    /\ \E code \in {RoomOf(actor)} :
       \E s \in {IF HostError(GameAt(code), actor) # ""
                 THEN Throw(GameAt(code), HostError(GameAt(code), actor))
                 ELSE addBotToLobby(GameAt(code), botName, StoreFreshId)} :
          /\ SetGame(code, s, ReturnTimersAt(code))
          /\ lastOp' = StoreOp("add-bot", code, actor, NoId, botName,
                               NoCard, s)
    /\ opsUsed' = opsUsed + 1
    /\ UNCHANGED <<chat, sent, inRoom, now, kickedAt>>

StoreStart(actor, key) ==
    /\ RoomOf(actor) # "none"
    /\ \E code \in {RoomOf(actor)} :
       \E s \in {startGame(GameAt(code), actor, key)} :
          /\ SetGame(code, s, ReturnTimersAt(code))
          /\ lastOp' = StoreOp("start-game", code, actor, NoId, <<>>,
                               NoCard, s)
    /\ opsUsed' = opsUsed + 1
    /\ UNCHANGED <<chat, sent, inRoom, now, kickedAt>>

StorePlay(actor, card) ==
    /\ RoomOf(actor) # "none"
    /\ \E code \in {RoomOf(actor)} :
       \E r \in {Settle(playCard(GameAt(code), actor, card, "player"))} :
       \E s \in {IF r.err = "" /\ r.gamePhase = "playing"
                      /\ HasCurrentPlayer(r) /\ CurrentPlayer(r).isAI
                 THEN Settle(processAITurn(r))
                 ELSE r},
          ended \in {r.err = "" /\ r.gamePhase = "ended"} :
          /\ ended => ReturnTimersAt(code) < MaxReturnTimers
          /\ SetGame(code, s, IF ended THEN ReturnTimersAt(code) + 1
                              ELSE ReturnTimersAt(code))
          /\ lastOp' = StoreOp("play-card", code, actor, NoId, <<>>, card, s)
          /\ opsUsed' =
                IF /\ opsUsed = MaxStoreOps
                   /\ r.err = ""
                   /\ HasCurrentPlayer(GameAt(code))
                   /\ CurrentPlayer(GameAt(code)).id = actor
                THEN opsUsed
                ELSE opsUsed + 1
    /\ UNCHANGED <<chat, sent, inRoom, now, kickedAt>>

StoreTimer(code, timer, pick) ==
    /\ timer \in GameAt(code).pendingTimers
    /\ \E s \in {handleTurnTimeout(
                     [GameAt(code) EXCEPT !.pendingTimers = @ \ {timer},
                                          !.staleTimers = @ \ {timer}],
                     pick)} :
          /\ SetGame(code, s, ReturnTimersAt(code))
          /\ lastOp' = StoreOp("turn-timeout", code, NoId, timer, <<>>,
                               NoCard, s)
    /\ opsUsed' = opsUsed + 1
    /\ UNCHANGED <<chat, sent, inRoom, now, kickedAt>>

StoreKick(actor, targetPlayerId) ==
    /\ RoomOf(actor) # "none"
    /\ \E code \in {RoomOf(actor)} :
       \E s \in {kickPlayer(GameAt(code), actor, targetPlayerId, now)} :
          /\ SetGame(code, s, ReturnTimersAt(code))
          /\ lastOp' = StoreOp("kick-player", code, actor, targetPlayerId,
                               <<>>, NoCard, s)
    /\ inRoom' = IF targetPlayerId \in StoreHumans
                    /\ findPlayerGame(targetPlayerId) = RoomOf(actor)
                 THEN inRoom \ {targetPlayerId}
                 ELSE inRoom
    /\ opsUsed' = opsUsed + 1
    /\ UNCHANGED <<chat, sent, now, kickedAt>>

\* leave-lobby: leaveGame looks the session of the player up
StoreLeave(actor) ==
    /\ findPlayerGame(actor) # "none"
    /\ \E code \in {findPlayerGame(actor)} :
       \E s \in {leaveGame(GameAt(code), actor)} :
          /\ SetGame(code, s, ReturnTimersAt(code))
          /\ lastOp' = StoreOp("leave-lobby", code, actor, NoId, <<>>,
                               NoCard, s)
    /\ inRoom' = inRoom \ {actor}
    /\ opsUsed' = opsUsed + 1
    /\ UNCHANGED <<chat, sent, now, kickedAt>>

StoreReturn(code) ==
    /\ ReturnTimersAt(code) > 0
    /\ \E s \in {returnToLobby(GameAt(code))} :
          /\ SetGame(code, s, ReturnTimersAt(code) - 1)
          /\ lastOp' = StoreOp("return-to-lobby", code, NoId, NoId, <<>>,
                               NoCard, s)
    /\ UNCHANGED opsUsed
    /\ UNCHANGED <<chat, sent, inRoom, now, kickedAt>>

\* Two lobby codes, steps on either session in any order: up to
\* MaxStoreOps steps, after which the play-card intents of the players who
\* are due and the return to the lobby carry the matches on to their end.
StoreBudget == opsUsed' <= MaxStoreOps

NextStore ==
    \/ \E c \in LobbyCodes, n \in {<<"a">>} : StoreCreate(c, n) /\ StoreBudget
    \/ \E c \in LobbyCodes, n \in JoinNames : StoreJoin(c, n) /\ StoreBudget
    \/ \E a \in StoreHumans, b \in BotNames : StoreAddBot(a, b) /\ StoreBudget
    \/ \E a \in StoreHumans, k \in ShuffleKeys :
          StoreStart(a, k) /\ StoreBudget
    \/ \E a \in StoreHumans :
          \E c \in {NoCard} \cup UNION {
                 {GameAt(g).players[i].hand[1] :
                     i \in {j \in 1..Len(GameAt(g).players) :
                               /\ GameAt(g).players[j].id = a
                               /\ GameAt(g).players[j].hand # <<>>}} :
                 g \in LobbyCodes} :
             StorePlay(a, c) /\ StoreBudget
    \/ \E c \in LobbyCodes :
          \E t \in GameAt(c).pendingTimers : StoreTimer(c, t, 1) /\ StoreBudget
    \/ \E a \in StoreHumans, t \in StoreIds \ {NoId} :
          StoreKick(a, t) /\ StoreBudget
    \/ \E a \in StoreHumans : StoreLeave(a) /\ StoreBudget
    \/ \E c \in LobbyCodes : StoreReturn(c)

SpecStore == Init /\ [][NextStore]_vars

----------------------------------------------------------------------------
(* Chat *)

\* a cut of the log that keeps its first entries
SliceFirst(seq, n) ==
    IF Len(seq) <= n THEN seq ELSE SubSeq(seq, 1, n)

\* Array.slice(-n): the last n elements, all of them when there are fewer
SliceLast(seq, n) ==
    IF Len(seq) <= n THEN seq ELSE SubSeq(seq, Len(seq) - n + 1, Len(seq))

\* sendMessage: the chat message built, the chat log after it, the error
sendMessage(s, log, playerId, message, isSystem, newId, t) ==
    LET p == PlayerIndexOf(s, playerId)
        chatMessage ==
            [id |-> newId, playerId |-> playerId,
             playerName |-> IF p # 0 /\ s.players[p].name # <<>>
                            THEN s.players[p].name ELSE <<"System">>,
             message |-> Trim(message), timestamp |-> t]
    IN IF ~s.live
       THEN [chat |-> log, chatMessage |-> chatMessage,
             err |-> "Game not found"]
       ELSE IF ~isSystem /\ p = 0
       THEN [chat |-> log, chatMessage |-> chatMessage,
             err |-> "Player not found"]
       ELSE [chat |-> SliceLast(Append(log, chatMessage), MAX_CHAT_MESSAGES),
             chatMessage |-> chatMessage, err |-> ""]

\* the texts that are sent
ChatTexts == {<<"hi">>, <<" ", "hi", " ">>}

\* the send-message handler
SendMessage(actor, message) ==
    /\ Len(sent) < MaxMessages
    /\ \E r \in {IF actor \notin inRoom
                 THEN [chat |-> chat, chatMessage |-> NoCard,
                       err |-> "Lobby not found"]
                 ELSE sendMessage(GameState, chat, actor, message, FALSE,
                                  Len(sent) + 1, now)} :
          /\ chat' = r.chat
          /\ sent' = IF r.err = "" THEN Append(sent, r.chatMessage) ELSE sent
          /\ lastOp' = [Op("send-message", actor, NoId, message, NoCard,
                           GameState) EXCEPT !.err = r.err]
    /\ UNCHANGED <<live, players, currentPlayerIndex, gamePhase, maxPlayers,
                   currentRound, deck, lastCard, playedCards, lastRoundWinner,
                   winner, turnTimeouts, pendingTimers, staleTimers,
                   armedFor, fireAt, speed, turnStartTimestamp, turnEndTimestamp,
                   returnTimers, kickedPlayers,
                   inRoom, now, kickedAt,
                   otherGames, opsUsed>>

\* sendSystemMessage, as the join, leave and disconnect handlers call it
SendSystemMessage(message) ==
    /\ Len(sent) < MaxMessages
    /\ opsUsed < MaxSystemMessages
    /\ \E r \in {sendMessage(GameState, chat, NoId, message, TRUE,
                              Len(sent) + 1, now)} :
          /\ chat' = r.chat
          /\ sent' = IF r.err = "" THEN Append(sent, r.chatMessage) ELSE sent
          /\ lastOp' = [Op("system-message", NoId, NoId, message, NoCard,
                           GameState) EXCEPT !.err = r.err]
    /\ opsUsed' = opsUsed + 1
    /\ UNCHANGED <<live, players, currentPlayerIndex, gamePhase, maxPlayers,
                   currentRound, deck, lastCard, playedCards, lastRoundWinner,
                   winner, turnTimeouts, pendingTimers, staleTimers,
                   armedFor, fireAt, speed, turnStartTimestamp, turnEndTimestamp,
                   returnTimers, kickedPlayers,
                   inRoom, now, kickedAt,
                   otherGames>>

\* A lobby and its chat: the creator and the system send up to MaxMessages
\* messages.
NextChat ==
    \/ \E n \in {<<"a">>} : CreateLobby(n)
    \/ \E a \in Humans, m \in ChatTexts : SendMessage(a, m)
    \/ \E m \in {<<"a", " ", "has", " ", "left">>} : SendSystemMessage(m)

SpecChat == Init /\ [][NextChat]_vars

\* Turn windows: a lobby of one or two Humans and a bot, set to a speed the
\* page offers or to another string, and its match while the clock
\* advances; card plays are explored in the rounds up to MaxTurnRounds.
SpeedInputs == {"slower", "extreme", "warp"}

NextTurn ==
    \/ \E n \in {<<"a">>} : CreateLobby(n) /\ WithinBudget
    \/ \E n \in {<<"b">>} : JoinLobby(LobbyCode, n) /\ WithinBudget
    \/ \E a \in Humans, b \in BotNames : AddBot(a, b) /\ WithinBudget
    \/ \E a \in Humans, sp \in SpeedInputs :
          ChangeSpeed(a, sp) /\ WithinBudget
    \/ \E a \in Humans, k \in ShuffleKeys :
          StartGame(a, k) /\ WithinBudget
    \/ \E a \in Humans :
          \E c \in {HandOf(a)[i] : i \in 1..Len(HandOf(a))} :
             /\ currentRound <= MaxTurnRounds
             /\ PlayCard(a, c)
             /\ WithinBudget
    \/ \E t \in pendingTimers, pick \in Picks :
          /\ currentRound <= MaxTurnRounds
          /\ TimerFire(t, pick)
          /\ WithinBudget
    \/ \E a \in Humans : LeaveLobby(a) /\ WithinBudget
    \/ Tick

SpecTurn == Init /\ [][NextTurn]_vars

\* Matches without a kick: the steps of Next, a kick being taken only while
\* no match is played.
NextNoKick ==
    \/ \E n \in JoinNames : CreateLobby(n) /\ WithinBudget
    \/ \E c \in LobbyCodes, n \in JoinNames :
          Explored /\ JoinLobby(c, n) /\ WithinBudget
    \/ \E a \in Humans, k \in ShuffleKeys :
          Explored /\ StartGame(a, k) /\ WithinBudget
    \/ \E a \in Humans :
          \E c \in {HandOf(a)[i] : i \in 1..Len(HandOf(a))} \cup {NoCard} :
             /\ Explored \/ (Pristine /\ DefaultPlay(a, c))
             /\ PlayCard(a, c)
             /\ WithinBudget
    \/ \E t \in pendingTimers, pick \in Picks :
          /\ Explored \/ (Pristine /\ pick = 1)
          /\ TimerFire(t, pick)
          /\ WithinBudget
    \/ \E a \in Humans, target \in UsedIds :
          gamePhase # "playing" /\ KickPlayer(a, target) /\ WithinBudget
    \/ \E a \in Humans : Explored /\ LeaveLobby(a) /\ WithinBudget
    \/ \E a \in Humans : Explored /\ Disconnect(a) /\ WithinBudget
    \/ \E a \in Humans, b \in BotNames :
          Explored /\ AddBot(a, b) /\ WithinBudget
    \/ ReturnToLobby

SpecNoKick == Init /\ [][NextNoKick]_vars

\* Host status: lobbies and matches of up to three Humans and a bot, whose
\* players leave, disconnect and join again; no card is played by intent.
HostNames == {<<"a">>, <<"b">>, <<"c">>}

NextHost ==
    \/ \E n \in {<<"a">>} : CreateLobby(n) /\ WithinBudget
    \/ \E n \in HostNames : JoinLobby(LobbyCode, n) /\ WithinBudget
    \/ \E a \in Humans, b \in BotNames : AddBot(a, b) /\ WithinBudget
    \/ \E a \in Humans, k \in ShuffleKeys :
          gamePhase = "lobby" /\ StartGame(a, k) /\ WithinBudget
    \/ \E a \in Humans : LeaveLobby(a) /\ WithinBudget
    \/ \E a \in Humans : Disconnect(a) /\ WithinBudget

SpecHost == Init /\ [][NextHost]_vars

\* Kicks during the first trick: a lobby of up to three Humans is started;
\* while the match is in its first round any Human plays the first card of
\* their hand, the turn timer fires and the Humans kick.
NextFirstTrick ==
    \/ \E n \in {<<"a">>} : CreateLobby(n)
    \/ \E n \in HostNames : gamePhase = "lobby" /\ JoinLobby(LobbyCode, n)
    \/ \E a \in Humans, k \in ShuffleKeys :
          gamePhase = "lobby" /\ StartGame(a, k)
    \/ \E a \in Humans :
          /\ gamePhase = "playing" /\ currentRound <= MaxRounds
          /\ HandOf(a) # <<>>
          /\ PlayCard(a, HandOf(a)[1])
    \/ \E t \in pendingTimers :
          gamePhase = "playing" /\ currentRound <= MaxRounds /\ TimerFire(t, 1)
    \/ \E a \in Humans, target \in Humans :
          gamePhase = "playing" /\ KickPlayer(a, target)

SpecFirstTrick == Init /\ [][NextFirstTrick]_vars

\* Timers on the clock: a lobby of two or three Humans at any speed, its
\* match, and the clock; a turn timer fires when the delay given to
\* setTimeout has run out, and cards are played by hand in the rounds up to
\* MaxRounds.
NextTimer ==
    \/ \E n \in {<<"a">>} : CreateLobby(n)
    \/ \E n \in HostNames : gamePhase = "lobby" /\ JoinLobby(LobbyCode, n)
    \/ \E a \in Humans, sp \in SpeedInputs : ChangeSpeed(a, sp)
    \/ \E a \in Humans, k \in ShuffleKeys : gamePhase = "lobby" /\ StartGame(a, k)
    \/ \E a \in Humans :
          /\ gamePhase = "playing" /\ currentRound <= MaxRounds
          /\ HandOf(a) # <<>>
          /\ PlayCard(a, HandOf(a)[1])
    \/ \E t \in pendingTimers : now >= fireAt[t] /\ TimerFire(t, 1)
    \/ Tick

SpecTimer == Init /\ [][NextTimer]_vars

\* Idle Humans: the intents of a session of two or three Humans, explored
\* as in Next, the due player's first card being playable in every round,
\* while every turn timer that is armed fires in its time unless it is
\* cleared first.
FireTurnTimer == \E t \in pendingTimers : TimerFire(t, 1)

NextIdle ==
    \/ \E n \in {<<"a">>} : CreateLobby(n) /\ WithinBudget
    \/ \E n \in HostNames :
          Explored /\ JoinLobby(LobbyCode, n) /\ WithinBudget
    \/ \E a \in Humans, k \in ShuffleKeys :
          Explored /\ StartGame(a, k) /\ WithinBudget
    \/ \E a \in Humans :
          /\ HandOf(a) # <<>>
          /\ Explored \/ DefaultPlay(a, HandOf(a)[1])
          /\ PlayCard(a, HandOf(a)[1])
          /\ WithinBudget
    \/ \E a \in Humans, target \in Humans :
          Explored /\ KickPlayer(a, target) /\ WithinBudget
    \/ \E a \in Humans : Explored /\ LeaveLobby(a) /\ WithinBudget
    \/ \E a \in Humans : Explored /\ Disconnect(a) /\ WithinBudget
    \/ FireTurnTimer
    \/ ReturnToLobby

\* Every armed turn timer fires unless it is cleared: WF_vars(FireTurnTimer)
\* written out, FireTurnTimer being enabled exactly while a timer is pending.
TimersFire ==
    \/ []<>(pendingTimers = {})
    \/ []<><<FireTurnTimer>>_vars

SpecIdle ==
    Init /\ [][NextIdle]_vars /\ TimersFire /\ WF_vars(ReturnToLobby)

\* Whole matches: lobbies of two to five players, one or two Humans and
\* bots, and their matches played to the end with every card played by the due player
\* and no kick; Humans choose their card in the rounds up to MaxRounds and
\* play the first card of the hand afterwards, and a Human may leave the
\* match to an AI in those rounds.
NextMatch ==
    \/ \E n \in {<<"a">>} : CreateLobby(n)
    \/ \E n \in {<<"b">>} : gamePhase = "lobby" /\ JoinLobby(LobbyCode, n)
    \/ \E a \in Humans, b \in DealBotNames :
          gamePhase = "lobby" /\ AddBot(a, b)
    \/ \E a \in Humans, k \in ShuffleKeys :
          gamePhase = "lobby" /\ StartGame(a, k)
    \/ \E a \in Humans :
          \E c \in {HandOf(a)[i] : i \in 1..Len(HandOf(a))} :
             /\ gamePhase = "playing"
             /\ HasCurrentPlayer(GameState)
             /\ CurrentPlayer(GameState).id = a
             /\ currentRound <= MaxRounds \/ c = HandOf(a)[1]
             /\ PlayCard(a, c)
    \/ \E t \in pendingTimers : gamePhase = "playing" /\ TimerFire(t, 1)
    \/ \E a \in Humans :
          /\ gamePhase = "playing" /\ currentRound <= MaxRounds
          /\ LeaveLobby(a)
          /\ WithinBudget

SpecMatch == Init /\ [][NextMatch]_vars

\* Display names: people who type a name of their own or the family name a
\* bot may be given, with or without the bot marker; bots, a match that is
\* started, and the leaves, disconnects, kicks and joins around it.
NameInputs == {<<"a">>, <<"Rossi">>, <<"Rossi", "bot">>}

NextNames ==
    \/ \E n \in NameInputs : CreateLobby(n) /\ WithinBudget
    \/ \E n \in NameInputs : JoinLobby(LobbyCode, n) /\ WithinBudget
    \/ \E a \in Humans, b \in BotNames : AddBot(a, b) /\ WithinBudget
    \/ \E a \in Humans, k \in ShuffleKeys : StartGame(a, k) /\ WithinBudget
    \/ \E a \in Humans, target \in UsedIds :
          KickPlayer(a, target) /\ WithinBudget
    \/ \E a \in Humans : LeaveLobby(a) /\ WithinBudget
    \/ \E a \in Humans : Disconnect(a) /\ WithinBudget

SpecNames == Init /\ [][NextNames]_vars

\* The AI strategy alone: a playing session whose due player is an AI that
\* leads a trick or follows one of up to MaxAITrick cards, with a hand of up
\* to MaxAIHand cards; computeChosenCard is applied to it.
AINumbers == {1, 2, 3, 4}

AISuits == {"a", "c"}

AICards == [number : AINumbers, suit : AISuits]

\* the sequences of n distinct cards among those of the set cards
CardSeqs(cards, n) ==
    {f \in [1..n -> cards] : \A i, j \in 1..n : f[i] = f[j] => i = j}

InitAI ==
    /\ live = TRUE
    /\ gamePhase = "playing"
    /\ \E n \in 0..MaxAITrick :
       \E t \in CardSeqs(AICards, n) :
       \E m \in 1..MaxAIHand :
       \E h \in CardSeqs(AICards \ {t[i] : i \in 1..n}, m) :
          /\ playedCards = [i \in 1..n |-> [playerId |-> i, card |-> t[i]]]
          /\ players =
                [i \in 1..Max(n + 1, MinPlayers) |->
                    IF i < Max(n + 1, MinPlayers)
                    THEN NewPlayer(i, <<"p">>, i = 1, FALSE)
                    ELSE [NewPlayer(i, <<"Rossi", "bot">>, FALSE, TRUE)
                             EXCEPT !.hand = h]]
          /\ currentPlayerIndex = Max(n + 1, MinPlayers) - 1
    /\ \E suit \in AISuits : lastCard = [number |-> 7, suit |-> suit]
    /\ maxPlayers = DefaultMaxPlayers
    /\ currentRound = 1
    /\ deck = <<>>
    /\ lastRoundWinner = NoId
    /\ winner = NoId
    /\ turnTimeouts = NoTimer
    /\ pendingTimers = {}
    /\ staleTimers = {}
    /\ armedFor = <<>>
    /\ fireAt = <<>>
    /\ speed = "normal"
    /\ turnStartTimestamp = NoTime
    /\ turnEndTimestamp = NoTime
    /\ returnTimers = 0
    /\ kickedPlayers = [c \in LobbyCodes |-> <<>>]
    /\ inRoom = {}
    /\ now = 0
    /\ kickedAt = <<>>
    /\ otherGames = [c \in OtherCodes |-> NoSession]
    /\ chat = <<>>
    /\ sent = <<>>
    /\ opsUsed = 0
    /\ lastOp = [op |-> "init", code |-> LobbyCode, actor |-> NoId,
                 target |-> NoId, name |-> <<>>, card |-> NoCard, err |-> "",
                 remainingMs |-> 0, trace |-> <<>>]

\* computeChosenCard is applied to the session and its due player: lastOp
\* names the card it returns
ComputeChosenCard ==
    /\ lastOp.op = "init"
    /\ lastOp' = [lastOp EXCEPT
                     !.op = "compute-chosen-card",
                     !.actor = CurrentPlayer(GameState).id,
                     !.card = computeChosenCard(GameState,
                                                CurrentPlayer(GameState))]
    /\ UNCHANGED <<chat, sent, otherGames,
                   live, players, currentPlayerIndex, gamePhase, maxPlayers,
                   currentRound, deck, lastCard, playedCards, lastRoundWinner,
                   winner, turnTimeouts, pendingTimers, staleTimers,
                   armedFor, fireAt, speed, turnStartTimestamp, turnEndTimestamp,
                   returnTimers, kickedPlayers,
                   inRoom, now, kickedAt, opsUsed>>

SpecAI == InitAI /\ [][ComputeChosenCard]_vars

----------------------------------------------------------------------------
(* Properties *)

Playing == live /\ gamePhase = "playing"

\* the hands of the players ps, one after the other
RECURSIVE Hands(_)
Hands(ps) == IF ps = <<>> THEN <<>> ELSE Head(ps).hand \o Hands(Tail(ps))

\* the won cards of the players ps, one after the other
RECURSIVE WonCards(_)
WonCards(ps) ==
    IF ps = <<>> THEN <<>> ELSE Head(ps).wonCards \o WonCards(Tail(ps))

\* every card the session holds: the deck (whose first card is the trump
\* indicator), the hands, the won cards and the cards of the current trick
AllCards ==
    deck \o Hands(players) \o WonCards(players)
         \o [i \in 1..Len(playedCards) |-> playedCards[i].card]

CardSet(cards) == {cards[i] : i \in 1..Len(cards)}

FullDecks ==
    {CardSet(handleSpecialDeckCases(OrderedDeck, n)) :
        n \in MinPlayers..MaxStartPlayers}

\* C1: while a session is playing, the cards of the deck (trump indicator
\* included), the hands, the won cards and the current trick are exactly a
\* full deck: none is missing, none appears twice.
CardsConserved ==
    Playing =>
        /\ Cardinality(CardSet(AllCards)) = Len(AllCards)
        /\ CardSet(AllCards) \in FullDecks

\* C2: the phase of a session changes only lobby -> playing, playing ->
\* ended and ended -> lobby, and a start-game is never accepted while the
\* session is playing.
PhaseSteps ==
    [][(live /\ live') =>
          /\ gamePhase' # gamePhase =>
                <<gamePhase, gamePhase'>> \in
                    {<<"lobby", "playing">>, <<"playing", "ended">>,
                     <<"ended", "lobby">>}
          /\ ~(/\ gamePhase = "playing"
               /\ lastOp'.op = "start-game"
               /\ lastOp'.err = "")]_vars

Hosts == {i \in 1..Len(players) : players[i].isHost}

\* C4: a live session has exactly one player with isHost = true.
OneHost == live => Cardinality(Hosts) = 1

\* C5: in a live session currentPlayerIndex is an index of the player list.
IndexValid ==
    live => 0 <= currentPlayerIndex /\ currentPlayerIndex < Len(players)

\* C6: while a session is playing, the current trick holds fewer cards than
\* there are players: a trick that reaches the player count is resolved in
\* the step that completes it.
TrickBelowPlayers == Playing => Len(playedCards) < Len(players)

\* the player whose turn it is, NoId when the index names nobody
DuePlayer ==
    IF HasCurrentPlayer(GameState) THEN CurrentPlayer(GameState).id ELSE NoId

\* C7: no player has two cards in the current trick, and a play-card intent
\* of a player who is not the due player adds no card to the trick.
PlayInTurn ==
    [][/\ \A i, j \in 1..Len(playedCards') :
             playedCards'[i].playerId = playedCards'[j].playerId => i = j
       /\ (lastOp'.op = "play-card" /\ Playing
              /\ lastOp'.actor # DuePlayer) =>
             lastOp'.trace = <<>> /\ playedCards' = playedCards]_vars

\* the hand of the player whose turn it is
DueHand ==
    IF HasCurrentPlayer(GameState) THEN CurrentPlayer(GameState).hand ELSE <<>>

\* the step is the firing of a pending turn timer of a playing session in
\* which a player is due
TimerStep == lastOp'.op = "turn-timeout" /\ Playing /\ DuePlayer # NoId

\* the player who is due after the step, NoId when the index names nobody
DuePlayerAfter ==
    IF currentPlayerIndex' + 1 \in 1..Len(players')
    THEN players'[currentPlayerIndex' + 1].id
    ELSE NoId

\* C3: a turn timer that was pending when a card was played is pending no
\* more, so it never plays a card; and a turn timer that fires on the turn
\* of a due player plays exactly one card, from the hand of that player,
\* every further card of the step being an AI's, and a new timer is armed
\* when the session is still playing with a player due afterwards.
TimerPlaysOnce ==
    [][/\ staleTimers' \cap pendingTimers' = {}
       /\ TimerStep =>
            LET tr == lastOp'.trace
            IN /\ lastOp'.err = ""
               /\ tr # <<>>
               /\ tr[1].by = "timer"
               /\ tr[1].playerId = DuePlayer
               /\ tr[1].card \in CardSet(DueHand)
               /\ \A i \in 2..Len(tr) : tr[i].by = "ai"
               /\ (gamePhase' = "playing" /\ DuePlayerAfter # NoId) =>
                     /\ turnTimeouts' \in pendingTimers'
                     /\ pendingTimers' = {turnTimeouts'}]_vars

\* the timer rule of C3 on the turns of a due player who holds a card, the
\* new timer being armed when the player due afterwards holds a card
TimerPlaysOnceWithCards ==
    [][/\ staleTimers' \cap pendingTimers' = {}
       /\ (TimerStep /\ DueHand # <<>>) =>
            LET tr == lastOp'.trace
            IN /\ lastOp'.err = ""
               /\ tr # <<>>
               /\ tr[1].by = "timer"
               /\ tr[1].playerId = DuePlayer
               /\ tr[1].card \in CardSet(DueHand)
               /\ \A i \in 2..Len(tr) : tr[i].by = "ai"
               /\ (/\ gamePhase' = "playing"
                   /\ DuePlayerAfter # NoId
                   /\ players'[currentPlayerIndex' + 1].hand # <<>>) =>
                     /\ ~players'[currentPlayerIndex' + 1].isAI
                     /\ turnTimeouts' \in pendingTimers'
                     /\ pendingTimers' = {turnTimeouts'}]_vars

\* a turn timer has fired in a playing session, played a card of the due
\* player and left the timer of the next turn pending
TimerPlayed ==
    /\ lastOp.op = "turn-timeout"
    /\ lastOp.trace # <<>>
    /\ lastOp.trace[1].by = "timer"
    /\ Playing
    /\ pendingTimers = {turnTimeouts}

HumanSeats == {i \in 1..Len(players) : ~players[i].isAI}

\* the step is the leave or the disconnect of a Human of a playing session
\* in which another Human remains
LeaveStep ==
    /\ lastOp'.op \in {"leave-lobby", "disconnect"}
    /\ Playing
    /\ PlayerIndexOf(GameState, lastOp'.actor) \in HumanSeats
    /\ Cardinality(HumanSeats) >= 2

\* C8: a Human who leaves or disconnects while the session is playing and
\* another Human remains keeps seat and id, in AI mode; a leaver who was
\* not due keeps hand, wonCards and score; for a leaver who was due a card
\* of their hand is played in the same step and the turn passes on.
LeaverBecomesAI ==
    [][LeaveStep =>
          LET p == PlayerIndexOf(GameState, lastOp'.actor)
              tr == lastOp'.trace
          IN /\ live'
             /\ Len(players') = Len(players)
             /\ players'[p].id = lastOp'.actor
             /\ players'[p].isAI
             /\ IF DuePlayer = lastOp'.actor
                THEN /\ tr # <<>>
                     /\ tr[1].playerId = lastOp'.actor
                     /\ tr[1].card \in CardSet(players[p].hand)
                     /\ \/ gamePhase' = "ended"
                        \/ currentRound' > currentRound
                        \/ currentPlayerIndex' # currentPlayerIndex
                ELSE /\ players'[p].hand = players[p].hand
                     /\ players'[p].wonCards = players[p].wonCards
                     /\ players'[p].score = players[p].score]_vars

Banned(playerName) ==
    isPlayerKicked(kickedPlayers, LobbyCode, playerName, now).isKicked

\* the step is a join of this session under a name that an AI-mode player
\* carries with the "bot" marker and that is under no kick cooldown
RejoinStep ==
    /\ lastOp'.op = "join-lobby"
    /\ lastOp'.code = LobbyCode
    /\ live
    /\ findReconnectableAI(GameState, lastOp'.name) # 0
    /\ ~Banned(lastOp'.name)

\* C9: such a join succeeds as a reconnect in every phase and for every
\* maxPlayers: the AI-mode player becomes Human with id, hand, wonCards,
\* score and seat unchanged, and no player is appended.
ReconnectAlways ==
    [][RejoinStep =>
          LET r == findReconnectableAI(GameState, lastOp'.name)
          IN /\ lastOp'.err = ""
             /\ Len(players') = Len(players)
             /\ \A i \in 1..Len(players) :
                   IF i = r
                   THEN [players'[i] EXCEPT !.name = players[i].name]
                           = [players[i] EXCEPT !.isAI = FALSE]
                   ELSE players'[i] = players[i]]_vars

\* the step is a join of this session under a name a Human was kicked with
KickedJoinStep ==
    /\ lastOp'.op = "join-lobby"
    /\ lastOp'.code = LobbyCode
    /\ live
    /\ lastOp'.name \in DOMAIN kickedAt

NameTaken(playerName) ==
    \E i \in 1..Len(players) : players[i].name = playerName

\* the join of the step adds a Human of the joining name, and only that
Joined ==
    /\ lastOp'.err = ""
    /\ Len(players') = Len(players) + 1
    /\ SubSeq(players', 1, Len(players)) = players
    /\ Last(players').name = lastOp'.name
    /\ ~Last(players').isAI

\* a join is rejected for a kick only in the session and under the name of
\* the kick, and before the cooldown is over
OnlyKickedRejected ==
    lastOp'.op = "join-lobby" /\ lastOp'.err = "KICK_TIMEOUT" =>
        /\ lastOp'.code = LobbyCode
        /\ lastOp'.name \in DOMAIN kickedAt
        /\ now < kickedAt[lastOp'.name] + KICK_TIMEOUT_MS

\* C10: after the kick of a Human named X at time t, a join under X before
\* t + 30000 is rejected with the kick-timeout error and remainingMs > 0
\* and adds no player; from t + 30000 on it is not rejected for the kick
\* and succeeds when the session is in lobby phase and not full.
KickCooldown ==
    [][/\ OnlyKickedRejected
       /\ KickedJoinStep =>
            IF now < kickedAt[lastOp'.name] + KICK_TIMEOUT_MS
            THEN /\ lastOp'.err = "KICK_TIMEOUT"
                 /\ lastOp'.remainingMs > 0
                 /\ players' = players
            ELSE /\ lastOp'.err # "KICK_TIMEOUT"
                 /\ (gamePhase = "lobby" /\ Len(players) < maxPlayers) =>
                       Joined]_vars

\* C10, the join from t + 30000 on succeeding when moreover no player of
\* the session carries the name
KickCooldownFreeName ==
    [][/\ OnlyKickedRejected
       /\ KickedJoinStep =>
            IF now < kickedAt[lastOp'.name] + KICK_TIMEOUT_MS
            THEN /\ lastOp'.err = "KICK_TIMEOUT"
                 /\ lastOp'.remainingMs > 0
                 /\ lastOp'.remainingMs =
                       kickedAt[lastOp'.name] + KICK_TIMEOUT_MS - now
                 /\ players' = players
            ELSE /\ lastOp'.err # "KICK_TIMEOUT"
                 /\ (/\ gamePhase = "lobby"
                     /\ Len(players) < maxPlayers
                     /\ ~NameTaken(lastOp'.name)) => Joined]_vars

\* a Human kicked under a name has joined again under it, the cooldown over
RejoinedAfterCooldown ==
    /\ lastOp.op = "join-lobby"
    /\ lastOp.err = ""
    /\ lastOp.name \in DOMAIN kickedAt
    /\ now >= kickedAt[lastOp.name] + KICK_TIMEOUT_MS
    /\ \E i \in 1..Len(players) :
          players[i].name = lastOp.name /\ ~players[i].isAI

\* the point value of a rank
PointsOfRank(number) ==
    CASE number = 1 -> 11
      [] number = 3 -> 10
      [] number = 10 -> 4
      [] number = 9 -> 3
      [] number = 8 -> 2
      [] OTHER -> 0

\* the dominant suit of the current trick: trump if a trump card was
\* played, else the suit of the first card
DominantSuit ==
    IF \E i \in 1..Len(playedCards) : playedCards[i].card.suit = lastCard.suit
    THEN lastCard.suit
    ELSE playedCards[1].card.suit

\* the play at position i beats every other dominant-suit play of the trick
BeatsAll(i) ==
    /\ playedCards[i].card.suit = DominantSuit
    /\ \A j \in 1..Len(playedCards) :
          (j # i /\ playedCards[j].card.suit = DominantSuit) =>
             \/ PointsOfRank(playedCards[j].card.number)
                   < PointsOfRank(playedCards[i].card.number)
             \/ /\ PointsOfRank(playedCards[j].card.number) = 0
                /\ PointsOfRank(playedCards[i].card.number) = 0
                /\ playedCards[j].card.number < playedCards[i].card.number

ResolveStep ==
    /\ Playing
    /\ lastOp'.op \in {"play-card", "turn-timeout", "leave-lobby", "disconnect"}
    /\ live'
    /\ currentRound' = currentRound + 1

\* the plays of the trick the step resolves: those made before the step and
\* the plays of the step that complete it
ResolvedTrick ==
    playedCards \o
        [i \in 1..(Len(players) - Len(playedCards)) |->
            [playerId |-> lastOp'.trace[i].playerId,
             card |-> lastOp'.trace[i].card]]

PointsOf(cards) ==
    SumSeq([i \in 1..Len(cards) |-> PointsOfRank(cards[i].number)])

\* every player's score is the point value of the player's wonCards
ScoreIsWonSum ==
    live => \A i \in 1..Len(players) :
               players[i].score = PointsOf(players[i].wonCards)

\* C12: when a trick resolves, its cards and no others are appended to the
\* wonCards of its winner, whose score becomes the point value of those
\* wonCards, and no other player's wonCards or score changes.
TrickToWinner ==
    [][ResolveStep =>
          LET trick == ResolvedTrick
              won == [i \in 1..Len(trick) |-> trick[i].card]
              id == RoundWinnerOf(trick, lastCard.suit).playerId
          IN /\ Len(players') = Len(players)
             /\ \E w \in 1..Len(players) :
                   /\ players[w].id = id
                   /\ players'[w].wonCards = players[w].wonCards \o won
                   /\ players'[w].score = PointsOf(players'[w].wonCards)
                   /\ \A i \in 1..Len(players) :
                         i # w =>
                            /\ players'[i].wonCards = players[i].wonCards
                            /\ players'[i].score = players[i].score]_vars

\* the plays of the step
PlaysOfStep == lastOp'.trace

\* C13: after a trick resolves and the match goes on, its winner acts
\* first in the next trick: the winner is the player who is due, or has
\* played the next card within the step; and the first card of a trick
\* after the first is played by the winner of the trick before.
WinnerLeads ==
    [][/\ (ResolveStep /\ gamePhase' = "playing") =>
            LET k == Len(players) - Len(playedCards)
                id == RoundWinnerOf(ResolvedTrick, lastCard.suit).playerId
            IN /\ lastRoundWinner' = id
               /\ IF Len(PlaysOfStep) > k
                  THEN PlaysOfStep[k + 1].playerId = id
                  ELSE DuePlayerAfter = id
       /\ (/\ Playing
           /\ playedCards = <<>>
           /\ currentRound > 1
           /\ lastOp'.op \in {"play-card", "turn-timeout", "leave-lobby",
                               "disconnect"}
           /\ PlaysOfStep # <<>>) =>
             PlaysOfStep[1].playerId = lastRoundWinner]_vars

\* the latest step was an accepted start-game
JustStarted == live /\ lastOp.op = "start-game" /\ lastOp.err = ""

\* the cards of the deck and of the hands, one entry per card held
DealtCards == deck \o Hands(players)

\* the seats before the first Human seat: AI players who play their first
\* card within the start itself
LeadingAISeats ==
    {i \in 1..Len(players) : \A j \in 1..i : players[j].isAI}

\* C14 as stated: right after an accepted start every player holds exactly
\* 3 cards, no card is held twice, and the cards of the deck, of the hands
\* and the trump indicator (the first card of the deck) are 40 cards, or 39
\* with three players.
DealAllInHand ==
    JustStarted =>
        /\ Len(players) \in 2..5
        /\ \A i \in 1..Len(players) : Len(players[i].hand) = 3
        /\ Cardinality(CardSet(DealtCards)) = Len(DealtCards)
        /\ lastCard \in CardSet(deck)
        /\ Cardinality(CardSet(DealtCards) \cup {lastCard})
              = IF Len(players) = 3 THEN 39 ELSE 40

\* C14, with the cards that the start itself plays: right after an
\* accepted start the AI players seated before the first Human have each
\* played one card, in seat order, and hold 2; every other player holds 3
\* and the first Human is due; no card is held twice; the cards of the
\* deck (the trump indicator is its first card), of the hands and of the
\* trick are 40 cards, or 39 with three players, one card of rank 2 being
\* left out.
DealComplete ==
    JustStarted =>
        LET trick == [i \in 1..Len(playedCards) |-> playedCards[i].card]
            held == DealtCards \o trick
        IN /\ Len(players) \in 2..5
           /\ Len(playedCards) = Cardinality(LeadingAISeats)
           /\ \A i \in 1..Len(playedCards) :
                 playedCards[i].playerId = players[i].id
           /\ currentPlayerIndex = Len(playedCards)
           /\ \A i \in 1..Len(players) :
                 Len(players[i].hand) = IF i \in LeadingAISeats THEN 2 ELSE 3
           /\ WonCards(players) = <<>>
           /\ Cardinality(CardSet(held)) = Len(held)
           /\ lastCard = deck[1]
           /\ Len(held) = IF Len(players) = 3 THEN 39 ELSE 40
           /\ CardSet(held) \subseteq CardSet(OrderedDeck)
           /\ Len(players) = 3 =>
                 \E c \in CardSet(OrderedDeck) \ CardSet(held) : c.number = 2

\* a session of five players has just been started with an AI in the first
\* seat, who has played a card
FiveDealt ==
    /\ JustStarted
    /\ Len(players) = 5
    /\ players[1].isAI
    /\ playedCards # <<>>
    /\ Len(deck) = 25

\* the cards seat i holds right after the refill of the trick the step
\* resolves: the hand after the step and the cards the seat has played
\* into the next trick within the step
HandAfterRefill(i) ==
    Len(players'[i].hand)
      + Cardinality({j \in (Len(players) - Len(playedCards) + 1)
                              ..Len(PlaysOfStep) :
                        PlaysOfStep[j].playerId = players'[i].id})

\* C15: a playing session enters ended only in a step that resolves a
\* trick; the step that resolves a trick ends the match exactly when some
\* hand is empty after the refill; and the deck of a session that has just
\* entered ended is empty.
EndsWhenHandEmpty ==
    [][/\ (Playing /\ live' /\ gamePhase' = "ended") =>
             /\ lastOp'.op \in {"play-card", "turn-timeout", "leave-lobby",
                                 "disconnect"}
             /\ currentRound' > currentRound
             /\ playedCards' = <<>>
             /\ deck' = <<>>
       /\ ResolveStep =>
             (gamePhase' = "ended"
                <=> \E i \in 1..Len(players') : HandAfterRefill(i) = 0)]_vars

\* a match has just ended at the resolution of a trick: the deck and every
\* hand are empty and all the cards are won
MatchEnded ==
    /\ live
    /\ gamePhase = "ended"
    /\ lastOp.op \in {"play-card", "turn-timeout"}
    /\ deck = <<>>
    /\ \A i \in 1..Len(players) : players[i].hand = <<>>
    /\ Len(WonCards(players)) = 40

\* the seats whose score no seat exceeds
TopSeats ==
    {i \in 1..Len(players) :
        \A j \in 1..Len(players) : players[j].score <= players[i].score}

\* the match ends in this step
MatchEnds == live /\ gamePhase = "playing" /\ live' /\ gamePhase' = "ended"

\* C16: the winner recorded when a match ends is a player of the session
\* whose score no player exceeds, and of the players with that score the
\* one in the lowest seat.
WinnerIsFirstTop ==
    [][MatchEnds =>
          \E w \in TopSeats' :
             /\ winner' = players'[w].id
             /\ \A j \in TopSeats' : w <= j]_vars

\* a match has ended with two seats tied on the top score, which is not 0,
\* and a third below
TiedAtTop ==
    /\ live
    /\ gamePhase = "ended"
    /\ lastOp.op = "end-game"
    /\ Cardinality(TopSeats) = 2
    /\ 1 \notin TopSeats
    /\ Len(players) = 3
    /\ \A i \in TopSeats : players[i].score > 0

\* the step is an intent that the engine rejects
Rejected ==
    /\ lastOp'.op \in {"join-lobby", "start-game", "play-card", "kick-player",
                       "add-bot", "change-max-players"}
    /\ lastOp'.err # ""

BansInForce(kicked, t) ==
    [c \in LobbyCodes |->
        [n \in {m \in DOMAIN kicked[c] : kicked[c][m] > t} |-> kicked[c][n]]]

KickByNonHost ==
    /\ lastOp'.op = "kick-player"
    /\ \E i \in 1..Len(players) :
          players[i].id = lastOp'.actor /\ ~players[i].isHost

\* C18: a kick-player intent of a participant who is not the host changes
\* nothing: the target stays in the session and stays attached to the
\* lobby's broadcast channel (the notification player-kicked is sent to the
\* target exactly when its socket is taken off the channel).
KickHostOnly ==
    [][KickByNonHost =>
          UNCHANGED <<live, players, currentPlayerIndex, kickedPlayers,
                      inRoom>>]_vars

\* the session has a Human player
HasHuman == \E i \in 1..Len(players) : ~players[i].isAI

\* C19: every session in the store has a Human player: a step that leaves
\* a session without one removes it from the store.
HumanInEverySession == live => HasHuman

\* the converse: a session is removed only by a step of a participant that
\* leaves no other Human behind
RemovedOnlyWithoutHuman ==
    [][(live /\ ~live') =>
          \A i \in 1..Len(players) :
             players[i].isAI \/ players[i].id = lastOp'.actor]_vars

\* C20: a session that enters the ended phase and is not removed from the
\* store returns to the lobby phase in the end, whoever played the last
\* card of the match.
EndedReturnsToLobby ==
    (live /\ gamePhase = "ended") ~> (~live \/ gamePhase = "lobby")

\* the step that ends a match schedules the transport's returnToLobby
EndSchedulesReturn == [][MatchEnds => returnTimers' > 0]_vars

\* C21: the maxPlayers of a session is one of 2, 3, 4, 5, whatever
\* create-lobby and change-max-players intents came before.
MaxPlayersInRange == live => maxPlayers \in MinPlayers..MaxStartPlayers

\* the store has a session under the code
CodeLive(code) == IF code = LobbyCode THEN live ELSE otherGames[code].live

\* C22: create-lobby never assigns a code that a session of the store
\* already uses, so that it never replaces a session.
CreateTakesFreeCode ==
    [][lastOp'.op = "create-lobby" => ~CodeLive(lastOp'.code)]_vars

\* what the manager holds for a lobby code: the session with its players,
\* cards, phase and turn index, its timers and its bans
HeldFor(code) ==
    IF code = LobbyCode
    THEN <<live, players, currentPlayerIndex, gamePhase, maxPlayers,
           currentRound, deck, lastCard, playedCards, lastRoundWinner,
           winner, turnTimeouts, pendingTimers, returnTimers,
           kickedPlayers[code]>>
    ELSE <<otherGames[code].live, otherGames[code].players,
           otherGames[code].currentPlayerIndex, otherGames[code].gamePhase,
           otherGames[code].maxPlayers, otherGames[code].currentRound,
           otherGames[code].deck, otherGames[code].lastCard,
           otherGames[code].playedCards, otherGames[code].lastRoundWinner,
           otherGames[code].winner, otherGames[code].turnTimeouts,
           otherGames[code].pendingTimers, otherGames[code].returnTimers,
           kickedPlayers[code]>>

ChatIsLatestSent ==
    /\ Len(chat) <= MAX_CHAT_MESSAGES
    /\ Len(chat) = Min(Len(sent), MAX_CHAT_MESSAGES)
    /\ \A i \in 1..Len(chat) : chat[i] = sent[Len(sent) - Len(chat) + i]

\* more than MAX_CHAT_MESSAGES messages have been sent, one of the dropped
\* ones by the system
OldestDropped ==
    /\ Len(sent) > MAX_CHAT_MESSAGES
    /\ Len(chat) = MAX_CHAT_MESSAGES
    /\ sent[1].playerId = NoId
    /\ chat[1].playerId # NoId

\* the step is the firing of a turn timer that plays a card
TimerPlays ==
    /\ lastOp'.op = "turn-timeout"
    /\ lastOp'.trace # <<>>
    /\ lastOp'.trace[1].by = "timer"

\* C25: the card a turn timer plays is a card of the player who was due
\* when that timer was armed; a timer that fires when another player is
\* due plays nothing.
TimerPlaysForArmedPlayer ==
    [][(TimerPlays /\ lastOp'.target \in DOMAIN armedFor) =>
          lastOp'.trace[1].playerId = armedFor[lastOp'.target]]_vars

\* the cards seat i holds right after the refill of the trick the step
\* resolves: the hand after the step and the cards the seat has played
\* into the next trick within the step
CardsAfterRefill(i) ==
    CardSet(players'[i].hand)
        \cup {PlaysOfStep[j].card :
                 j \in {k \in (Len(players) - Len(playedCards) + 1)
                                 ..Len(PlaysOfStep) :
                           PlaysOfStep[k].playerId = players'[i].id}}

\* the step resolves a trick into which every player has played one card
\* and after which every player draws one card
OneCardEach ==
    /\ ResolveStep
    /\ Len(players') = Len(players)
    /\ Len(deck') = Len(deck) - Len(players)
    /\ Len(ResolvedTrick) = Len(players)
    /\ \A i \in 1..Len(players) :
          /\ players'[i].id = players[i].id
          /\ HandAfterRefill(i) = CARDS_PER_HAND
          /\ \E j \in 1..Len(ResolvedTrick) :
                ResolvedTrick[j].playerId = players[i].id

\* C26: after a trick resolves, the cards are drawn from the deck by the
\* winner of the trick first and then by the seats that follow the
\* winner's, wrapping around: the k-th card drawn goes to the k-th seat
\* counted from the winner's, the last one to the seat before the winner's.
RefillFromWinner ==
    [][OneCardEach =>
          LET n == Len(players)
              id == RoundWinnerOf(ResolvedTrick, lastCard.suit).playerId
          IN \E w \in 1..n :
                /\ players[w].id = id
                /\ \A k \in 1..n :
                      deck[Len(deck) - k + 1]
                         \in CardsAfterRefill(((w - 1 + k - 1) % n) + 1)]_vars

\* what the code does: the k-th card drawn goes to the k-th seat
RefillInSeatOrder ==
    [][OneCardEach =>
          \A k \in 1..Len(players) :
             deck[Len(deck) - k + 1] \in CardsAfterRefill(k)]_vars

\* the step draws cards from the tail of the deck and none from its head
DrawsFromTail ==
    \E n \in 0..Len(deck) : deck' = SubSeq(deck, 1, Len(deck) - n)

\* the step carries a match on: it is no start of a match
MatchGoesOn ==
    /\ live /\ gamePhase = "playing"
    /\ live' /\ gamePhase' \in {"playing", "ended"}
    /\ ~(lastOp'.op = "start-game" /\ lastOp'.err = "")

ArmingStep ==
    /\ lastOp'.err = ""
    /\ \/ lastOp'.op = "start-game"
       \/ lastOp'.op \in {"play-card", "turn-timeout"} /\ lastOp'.trace # <<>>
       \/ /\ lastOp'.op \in {"leave-lobby", "disconnect"}
          /\ Playing /\ live'
          /\ DuePlayer = lastOp'.actor

\* a card is due: the session is being played and its due player holds cards
CardDueAfter ==
    /\ live' /\ gamePhase' = "playing"
    /\ currentPlayerIndex' + 1 \in 1..Len(players')
    /\ players'[currentPlayerIndex' + 1].hand # <<>>

TurnArmed == ArmingStep /\ CardDueAfter

\* turnEndTimestamp - turnStartTimestamp - the preset of the speed, after
\* the step
BufferAfter ==
    turnEndTimestamp' - turnStartTimestamp' - speedMap[speed']

\* C29: a turn that is armed starts now and ends after the preset of the
\* session's speed, with the buffer of 3000 ms added exactly when a trick
\* was resolved since the turn before it: also when the AIs that follow
\* the resolution have played before the turn.
TurnWindowAsStated ==
    [][TurnArmed =>
          /\ speed' \in speedOptions
          /\ turnStartTimestamp' = now'
          /\ BufferAfter = IF ResolveStep THEN ROUND_RESOLUTION_BUFFER_MS
                           ELSE 0]_vars

\* what the code does: the buffer is added when the turn armed is the lead
\* of the trick, and dropped when an AI has led it within the step
TurnWindowOfLead ==
    [][TurnArmed =>
          /\ speed' \in speedOptions
          /\ turnStartTimestamp' = now'
          /\ BufferAfter = IF ResolveStep /\ playedCards' = <<>>
                           THEN ROUND_RESOLUTION_BUFFER_MS
                           ELSE 0]_vars

\* the card the AI has chosen comes from its attempt to win the trick
AttemptedToWin ==
    /\ lastOp.op = "compute-chosen-card"
    /\ attemptToWin(GameState, CurrentPlayer(GameState)) # NoCard

\* played by the due player on the current trick, the card wins the trick
\* under determineRoundWinner
BeatsTrick(card) ==
    RoundWinnerOf(Append(playedCards, [playerId |-> lastOp.actor,
                                       card |-> card]),
                  lastCard.suit).playerId = lastOp.actor

\* C30: the card the AI returns from its attempt to win a trick it follows
\* wins the trick under the trick resolver's rule; it is of the suit led or
\* a trump, and no card of the hand that is of its suit and wins the trick
\* is worth less.
AttemptToWinBeats ==
    AttemptedToWin =>
       /\ lastOp.card = attemptToWin(GameState, CurrentPlayer(GameState))
       /\ BeatsTrick(lastOp.card)
       /\ lastOp.card.suit \in {playedCards[1].card.suit, lastCard.suit}
       /\ \A i \in 1..Len(CurrentPlayer(GameState).hand) :
             LET c == CurrentPlayer(GameState).hand[i]
             IN (c.suit = lastOp.card.suit /\ BeatsTrick(c)) =>
                   getCardValue(lastOp.card) <= getCardValue(c)

\* the card returned from the attempt to win is the one computeChosenCard
\* returns, of the suit led or a trump
AttemptToWinReturned ==
    AttemptedToWin =>
       /\ lastOp.card = attemptToWin(GameState, CurrentPlayer(GameState))
       /\ lastOp.card.suit \in {playedCards[1].card.suit, lastCard.suit}

\* the card returned from the attempt to win wins the trick
AttemptToWinWins == AttemptedToWin => BeatsTrick(lastOp.card)

\* when no trump is in the trick, the card returned from the attempt to win
\* wins the trick
AttemptToWinWinsWithoutTrump ==
    (AttemptedToWin
        /\ \A i \in 1..Len(playedCards) :
              playedCards[i].card.suit # lastCard.suit)
       => BeatsTrick(lastOp.card)

\* the hand of the AI that computeChosenCard was applied to
AIHand == CardSet(CurrentPlayer(GameState).hand)

\* C31: the card computeChosenCard returns is a card of the hand; when the
\* AI leads the trick it is a card that is no trump and is worth no more
\* than any other such card of the hand, or, when the hand holds trumps
\* only, a card worth no more than any other card of the hand.
LeadsLowestCard ==
    lastOp.op = "compute-chosen-card" =>
       /\ lastOp.card \in AIHand
       /\ playedCards = <<>> =>
             LET nonTrumps == {c \in AIHand : c.suit # lastCard.suit}
                 among == IF nonTrumps # {} THEN nonTrumps ELSE AIHand
             IN /\ lastOp.card \in among
                /\ \A c \in among :
                      getCardValue(lastOp.card) <= getCardValue(c)

\* the AI has led a card that is no trump from a hand that begins with a
\* trump or with a card worth more
LedNonTrump ==
    /\ lastOp.op = "compute-chosen-card"
    /\ playedCards = <<>>
    /\ lastOp.card.suit # lastCard.suit
    /\ lastOp.card # CurrentPlayer(GameState).hand[1]

\* C32: the winner of a session is set exactly while the session is in the
\* ended phase: it is unset in the lobby and while a match is played.
WinnerIffEnded == live => (winner # NoId <=> gamePhase = "ended")

\* the winner of a session in the ended phase is set
WinnerSetWhenEnded == (live /\ gamePhase = "ended") => winner # NoId

\* the winner of a session in the lobby phase is unset
WinnerUnsetInLobby == (live /\ gamePhase = "lobby") => winner = NoId

\* C33: in a live session no player in AI mode is the host: a bot is added
\* without host status, and a host who leaves a match to an AI loses host
\* status within the step.
NoAIHost ==
    live => \A i \in 1..Len(players) : players[i].isAI => ~players[i].isHost

\* the host of a match has just left it to an AI, and another player is host
HostLeftToAI ==
    /\ live
    /\ lastOp.op \in {"leave-lobby", "disconnect"}
    /\ lastOp.err = ""
    /\ \E i, j \in 1..Len(players) :
          /\ players[i].id = lastOp.actor
          /\ players[i].isAI
          /\ ~players[i].isHost
          /\ players[j].isHost
          /\ ~players[j].isAI

\* a player of the session leaves it or disconnects from it
Leaves ==
    /\ live
    /\ lastOp'.op \in {"leave-lobby", "disconnect"}
    /\ PlayerIndexOf(GameState, lastOp'.actor) # 0

\* the ids of the Humans of the session other than the leaver, in seat order
RemainingHumans ==
    SelectSeq([i \in 1..Len(players) |->
                  IF players[i].isAI \/ players[i].id = lastOp'.actor
                  THEN NoId ELSE players[i].id],
              LAMBDA id : id # NoId)

HostIdsBefore == {players[i].id : i \in Hosts}

HostIdsAfter == {players'[i].id : i \in {j \in 1..Len(players') : players'[j].isHost}}

\* C34: when the host leaves and another Human remains, the first of the
\* remaining Humans in seat order becomes the host, and nobody else is;
\* when a player who is not the host leaves, the hosts are who they were.
HostMovesToFirstHuman ==
    [][(Leaves /\ live') =>
          IF lastOp'.actor \in HostIdsBefore
          THEN RemainingHumans # <<>>
                  /\ HostIdsAfter = {RemainingHumans[1]}
          ELSE HostIdsAfter = HostIdsBefore]_vars

\* the creator of the lobby, its host, has left a session with two other
\* Humans for the first time, and the first of them in seat order is the host
HostMovedToFirst ==
    /\ live
    /\ lastOp.op \in {"leave-lobby", "disconnect"}
    /\ lastOp.actor = 1
    /\ opsUsed = 1
    /\ Cardinality(Humans) >= 2
    /\ \E i \in 1..Len(players) :
          /\ players[i].isHost
          /\ ~players[i].isAI
          /\ players[i].id # lastOp.actor
          /\ \A j \in 1..(i - 1) : players[j].isAI
          /\ \E k \in (i + 1)..Len(players) : ~players[k].isAI

\* the cards of the deck a match of the session's players starts with
StartDeck == CardSet(handleSpecialDeckCases(OrderedDeck, Len(players)))

\* C35: while a match is played with no kick since its start, the deck, the
\* hands, the current trick and the won cards hold each card of the start
\* deck of its players once and no other card, and the trump indicator,
\* while it is in the deck, is the bottom card of the deck.
CardsConservedWithoutKick ==
    Playing =>
        /\ Len(AllCards) = Cardinality(StartDeck)
        /\ CardSet(AllCards) = StartDeck
        /\ Cardinality(StartDeck) = IF Len(players) = 3 THEN 39 ELSE 40
        /\ lastCard \in CardSet(deck) => deck[1] = lastCard

\* a match of three players is in its second round or later, with cards in
\* the deck, in the hands, in the trick and won
CardsEverywhere ==
    /\ Playing
    /\ Len(players) = 3
    /\ currentRound > 1
    /\ deck # <<>>
    /\ playedCards # <<>>
    /\ WonCards(players) # <<>>

\* a card is due from a Human: the session is being played and its due
\* player is a Human who holds a card
HumanDue ==
    /\ Playing
    /\ HasCurrentPlayer(GameState)
    /\ ~CurrentPlayer(GameState).isAI
    /\ CurrentPlayer(GameState).hand # <<>>

\* C36: at most one turn timer is pending for the lobby code, and exactly
\* one while a card is due from a Human.
OneTimerPending ==
    /\ Cardinality(pendingTimers) <= 1
    /\ HumanDue => Cardinality(pendingTimers) = 1

\* at most one turn timer is pending for the lobby code, and it is the one
\* the manager holds for the code
AtMostOneTimer ==
    /\ Cardinality(pendingTimers) <= 1
    /\ pendingTimers \subseteq {turnTimeouts}

\* the step is the firing of the timer the manager holds for the turn, no
\* sooner than its delay allows, and it plays a card
TurnTimerPlays ==
    /\ TimerPlays
    /\ lastOp'.target = turnTimeouts
    /\ now >= fireAt[turnTimeouts]

\* C37: when the timer armed for a turn fires and plays a card, the time
\* since turnStartTimestamp is at least turnEndTimestamp - turnStartTimestamp.
NoAutoPlayBeforeTurnEnd ==
    [][TurnTimerPlays =>
          now - turnStartTimestamp >= turnEndTimestamp - turnStartTimestamp]_vars

\* the same on the turns that do not follow a trick resolution
NoAutoPlayBeforeTurnEndInTrick ==
    [][(TurnTimerPlays /\ playedCards # <<>>) =>
          now - turnStartTimestamp >= turnEndTimestamp - turnStartTimestamp]_vars

\* C38: a session that is being played reaches the ended phase or is
\* destroyed, the armed turn timers firing while the Humans stay idle.
MatchComesToAnEnd ==
    (live /\ gamePhase = "playing") ~> (~live \/ gamePhase = "ended")

\* a session that is being played does not stay in play for ever
MatchLeavesPlay ==
    (live /\ gamePhase = "playing") ~> (~live \/ gamePhase # "playing")

\* the step ends a match
MatchEndsNow == gamePhase = "playing" /\ gamePhase' = "ended"

TotalScore(ps) == SumSeq([i \in 1..Len(ps) |-> ps[i].score])

\* C39: when a match of two to five players ends after plays in turn and no
\* kick, the deck and the hands are empty, every card of the start deck is
\* in some player's wonCards, and the scores sum to 120.
MatchEndsWith120 ==
    [][MatchEndsNow =>
          /\ Len(players') \in MinPlayers..MaxStartPlayers
          /\ deck' = <<>>
          /\ Hands(players') = <<>>
          /\ CardSet(WonCards(players')) = StartDeck
          /\ Len(WonCards(players')) = Cardinality(StartDeck)
          /\ TotalScore(players') = 120]_vars

\* a match of five players, one of whom left it to an AI, has just ended
\* with the deck dealt out
FiveEnded ==
    /\ live
    /\ gamePhase = "ended"
    /\ Len(players) = MaxStartPlayers
    /\ opsUsed > 0
    /\ lastOp.op \in {"play-card", "turn-timeout"}
    /\ deck = <<>>

\* C40: the display names of the players of a session are pairwise
\* distinct.
NamesDistinct ==
    \A i, j \in 1..Len(players) :
       i # j => players[i].name # players[j].name

\* the same among the Humans of the session
HumanNamesDistinct ==
    \A i, j \in 1..Len(players) :
       (i # j /\ ~players[i].isAI /\ ~players[j].isAI) =>
          players[i].name # players[j].name
====
